---- MODULE Spec2Model ----
(***************************************************************************)
(* Model of the rocq-bootstrap installers: the Go pipelines (macOS,        *)
(* Windows, Linux Run), the shell installer's macOS and Linux strategies,  *)
(* and the GUI's Install / Doctor triggers.                                *)
(***************************************************************************)
EXTENDS Integers, Sequences, FiniteSets, TLC

VARIABLES
  platform,   \* which installer runs on this machine
  manifest,   \* the release descriptor, read-only after load
  machine,    \* the file system / OS state the installers act on
  pc,         \* position of the pipeline inside Run
  cfg,        \* installer.Config of the current run
  locals,     \* local variables of Run
  reports,    \* the calls made to cfg.OnStep in the current run, in order
  ops,        \* the external commands / library calls of the current run, in order
  result,     \* the *Result returned by Run
  err,        \* the error returned by Run ("" is nil)
  prev,       \* summaries of the last two finished runs
  runs,       \* number of runs started on this machine
  gui         \* the window of the GUI: its buttons, dialogs and goroutines

vars ==
  <<platform, manifest, machine, pc, cfg, locals, reports, ops, result, err, prev, runs,
    gui>>

-----------------------------------------------------------------------------
(* Bounds *)

MaxRuns == 2
MaxChunks == 2
MaxLines == 2
MaxTaps == 4

\* The largest body, in bytes, of a download followed read by read.
\* The length of a hash in the checksum function's own specification.
MaxHash == 2

\* The most dot-separated components of a toolchain version.
MaxComponents == 4

\* The most output lines of a package installation followed line by line.
MaxOutputLines == 202

MaxBytes == 3

\* Longest asset URL, in tokens, and most assets of a release.
MaxUrl == 4

MaxAssets == 2

\* Most entries the recursive walk visits.
MaxEntries == 2

\* The most locations one discovery source reports.
MaxDetected == 2

-----------------------------------------------------------------------------
(* Strings that the code inspects character by character are sequences of *)
(* one-character strings.                                                  *)

RECURSIVE TrimLeft(_)
TrimLeft(s) == IF s # <<>> /\ Head(s) = " " THEN TrimLeft(Tail(s)) ELSE s

RECURSIVE TrimRight(_)
TrimRight(s) ==
  IF s # <<>> /\ s[Len(s)] = " " THEN TrimRight(SubSeq(s, 1, Len(s) - 1)) ELSE s

TrimSpace(s) == TrimRight(TrimLeft(s))

ToLowerChar(c) ==
  CASE c = "A" -> "a" [] c = "B" -> "b" [] c = "C" -> "c"
    [] c = "D" -> "d" [] c = "E" -> "e" [] c = "F" -> "f" [] OTHER -> c

EqualFold(a, b) ==
  /\ Len(a) = Len(b)
  /\ \A i \in 1..Len(a) : ToLowerChar(a[i]) = ToLowerChar(b[i])

-----------------------------------------------------------------------------
(* Progress protocol *)

Frac0 == <<0, 1>>
FracHalf == <<1, 2>>
Frac1 == <<1, 1>>

IsOne(f) == f[1] = f[2]

OnStep(rs, step, label, fraction) ==
  Append(rs, [step |-> step, label |-> label, fraction |-> fraction])

NilResult ==
  [isNil |-> TRUE, VSCodeFound |-> FALSE, InstalledApp |-> "", VsrocqtopPath |-> "",
   InstallDir |-> "", SwitchName |-> ""]

EmptyResult == [NilResult EXCEPT !.isNil = FALSE]

Op(name, ok) == [op |-> name, ok |-> ok]

OpNames(os) == {os[i].op : i \in 1..Len(os)}

-----------------------------------------------------------------------------
(* Acquisition *)

FileHashes == {<<"a", "b">>, <<"b", "a">>}

ExpectedHashes == {<<>>, <<" ", "A", "b", " ">>, <<"b", "a">>}

\* Variant of VerifySHA256 that stops after reading the file.
VerifyWithoutCompare(opened, got, expected) ==
  TrimSpace(expected) = <<>> \/ opened

\* VerifySHA256: TRUE when the function returns nil.  opened is whether
\* os.Open and io.Copy succeeded, got is hex.EncodeToString of the digest.
VerifySHA256(opened, got, expected) ==
  LET e == TrimSpace(expected) IN
  IF e = <<>> THEN TRUE
  ELSE IF ~opened THEN FALSE
  ELSE EqualFold(got, e)

\* The calls Download makes to its progress function when the body arrives in
\* `upto` chunks of a `size`-chunk body: the chunks in `timed` pass the 200 ms
\* throttle, and a completed download adds the final call.
ProgressCalls(timed, upto, size, total, completed) ==
  LET chunkCalls == SelectSeq([i \in 1..upto |-> i], LAMBDA i : i \in timed)
      calls == IF completed THEN Append(chunkCalls, size) ELSE chunkCalls
  IN [i \in 1..Len(calls) |-> [downloaded |-> calls[i], total |-> total]]

\* The progress closure Run hands to Download.
RECURSIVE DownloadReports(_, _, _)
DownloadReports(rs, calls, label) ==
  IF calls = <<>> THEN rs
  ELSE LET c == Head(calls)
           rs2 == IF c.total > 0
                  THEN OnStep(rs, 1, label, <<c.downloaded, c.total>>)
                  ELSE rs
       IN DownloadReports(rs2, Tail(calls), label)

-----------------------------------------------------------------------------
(* Disk image strategy (macOS, Go) *)

AppName == "Rocq-Platform.app"

AppDst(writable) ==
  IF writable THEN "/Applications/" \o AppName ELSE "~/Applications/" \o AppName

\* UnmountDMG: detach, and on failure detach -force.
UnmountDMG(detachOk, forceOk) ==
  IF detachOk
  THEN [ops |-> <<Op("hdiutil detach", TRUE)>>, mounted |-> FALSE, err |-> ""]
  ELSE [ops |-> <<Op("hdiutil detach", FALSE), Op("hdiutil detach -force", forceOk)>>,
        mounted |-> ~forceOk,
        err |-> IF forceOk THEN "" ELSE "detach"]

\* Variant of the destination test with the flag inverted.
SkipsOnlyWhenForced(exists, force) == exists /\ force

\* The test of dmg.go line 109.
InstallAppSkips(exists, force) == exists /\ ~force

\* InstallApp(appSrc, force) on a machine m; o holds the outcomes of the
\* system calls it makes.
InstallApp(m, force, o) ==
  LET writable == m.appsWritable
      dst == AppDst(writable)
      exists == m.dest # "none"
  IN
  IF ~writable /\ ~o.homeOk
    THEN [path |-> "", err |-> "get home dir", ops |-> <<>>, dest |-> m.dest]
  ELSE IF ~writable /\ ~o.mkdirOk
    THEN [path |-> "", err |-> "create ~/Applications", ops |-> <<>>, dest |-> m.dest]
  ELSE IF InstallAppSkips(exists, force)
    THEN [path |-> dst, err |-> "", ops |-> <<>>, dest |-> m.dest]
  ELSE
    LET afterRm == IF o.rmOk THEN "none" ELSE m.dest
        rmOps == <<Op("RemoveAll", o.rmOk)>>
    IN
    IF o.rsyncOk
      THEN [path |-> dst, err |-> "", ops |-> rmOps \o <<Op("rsync", TRUE)>>,
            dest |-> "new"]
    ELSE IF o.cpOk
      THEN [path |-> dst, err |-> "",
            ops |-> rmOps \o <<Op("rsync", FALSE), Op("cp -R", TRUE)>>,
            dest |-> IF afterRm = "none" THEN "new" ELSE afterRm]
    ELSE [path |-> "", err |-> "copy app",
          ops |-> rmOps \o <<Op("rsync", FALSE), Op("cp -R", FALSE)>>,
          dest |-> IF afterRm = "none" THEN o.leftover ELSE afterRm]

InstallOutcomes ==
  [homeOk : BOOLEAN, mkdirOk : BOOLEAN, rmOk : BOOLEAN, rsyncOk : BOOLEAN,
   cpOk : BOOLEAN, leftover : {"none", "partial"}]

\* The outcomes that InstallApp can tell apart on machine m: a call that is
\* not made has one (successful) outcome.  os.UserHomeDir has succeeded at
\* the entry of Run in the same process, and os.MkdirAll succeeds on a
\* directory that exists.
RelevantOutcomes(m, force) ==
  {o \in InstallOutcomes :
     /\ o.homeOk
     /\ (m.appsWritable \/ m.dest # "none" => o.mkdirOk)
     /\ (~o.mkdirOk \/ InstallAppSkips(m.dest # "none", force) => o.rmOk /\ o.rsyncOk)
     /\ (m.dest = "none" => o.rmOk)
     /\ (o.rsyncOk => o.cpOk)
     /\ (o.cpOk => o.leftover = "none")}

-----------------------------------------------------------------------------
(* Run bookkeeping shared by the pipelines *)

NoDigest == [read |-> FALSE, opened |-> FALSE, got |-> <<>>]

Digest(opened, got) == [read |-> TRUE, opened |-> opened, got |-> got]

\* The outcomes of reading the artifact that VerifySHA256 can tell apart: with
\* an empty expected hash the file is not opened.
DigestOutcomes(expected) ==
  IF TrimSpace(expected) = <<>> THEN {NoDigest}
  ELSE {Digest(FALSE, <<>>)} \cup {Digest(TRUE, h) : h \in FileHashes}

NoLocals ==
  [deferRm |-> FALSE, installedAppPath |-> "", vsrocqtopPath |-> "",
   codeBin |-> "", result |-> EmptyResult, failedStep |-> 0, destBefore |-> "none",
   digest |-> NoDigest]

NoCfg == [SkipInstall |-> FALSE, ExistingApp |-> "", force |-> FALSE]

Downloads(os) == Cardinality({i \in 1..Len(os) : os[i].op = "download"})

\* Variant of a return statement that runs no deferred call.
FinishWithoutDeferred(c, ls, res, e, rs, os, m, step) ==
  /\ pc' = "done"
  /\ cfg' = c
  /\ result' = res
  /\ err' = e
  /\ reports' = rs
  /\ ops' = os
  /\ machine' = m
  /\ locals' = [ls EXCEPT !.failedStep = IF e = "" THEN 0 ELSE step]
  /\ prev' = [older |-> prev.last,
              last |-> [none |-> FALSE, skip |-> c.SkipInstall, force |-> c.force,
                        err |-> e, location |-> ls.installedAppPath,
                        net |-> Downloads(os), destBefore |-> ls.destBefore]]
  /\ runs' = runs + 1
  /\ UNCHANGED <<platform, manifest, gui>>

\* A return statement of Run under configuration c with locals ls: the
\* deferred os.RemoveAll(tempDir) runs when it was registered, and the caller
\* receives (res, e).
Finish(c, ls, res, e, rs, os, m, step) ==
  /\ pc' = "done"
  /\ cfg' = c
  /\ result' = res
  /\ err' = e
  /\ reports' = rs
  /\ ops' = os
  /\ machine' = IF ls.deferRm THEN [m EXCEPT !.tmp = "none"] ELSE m
  /\ locals' = [ls EXCEPT !.failedStep = IF e = "" THEN 0 ELSE step]
  /\ prev' = [older |-> prev.last,
              last |-> [none |-> FALSE, skip |-> c.SkipInstall, force |-> c.force,
                        err |-> e, location |-> ls.installedAppPath,
                        net |-> Downloads(os), destBefore |-> ls.destBefore]]
  /\ runs' = runs + 1
  /\ UNCHANGED <<platform, manifest, gui>>

\* Variant of a return statement that hands the partial Result to the caller.
ReturnPartialResult(res, e, rs, os, m, step) ==
  Finish(cfg, locals, locals.result, e, rs, os, m, step)

Return(res, e, rs, os, m, step) == Finish(cfg, locals, res, e, rs, os, m, step)

\* Run continues at the next position.
Goto(next, rs, os, m, ls) ==
  /\ pc' = next
  /\ reports' = rs
  /\ ops' = os
  /\ machine' = m
  /\ locals' = ls
  /\ UNCHANGED <<platform, manifest, cfg, result, err, prev, runs, gui>>

\* Run is entered with configuration c and reaches position next.
Enter(c, next, rs, ls) ==
  /\ pc' = next
  /\ cfg' = c
  /\ reports' = rs
  /\ ops' = <<>>
  /\ locals' = ls
  /\ result' = NilResult
  /\ err' = ""
  /\ UNCHANGED <<platform, manifest, machine, prev, runs, gui>>

\* No window: the pipeline is driven directly.
NoGui == [open |-> FALSE]

NoSummary ==
  [none |-> TRUE, skip |-> FALSE, force |-> FALSE, err |-> "", location |-> "",
   net |-> 0, destBefore |-> "none"]

NoPrev == [older |-> NoSummary, last |-> NoSummary]

CanStart == pc \in {"idle", "done"} /\ runs < MaxRuns

-----------------------------------------------------------------------------
(* macOS pipeline: installer.Run *)

MacLabelDownload == "Downloading Rocq Platform DMG..."

\* The reports of the reuse branch.
MacSkipReports(rs) ==
  OnStep(OnStep(OnStep(rs,
    1, "Rocq Platform already installed, skipping download.", Frac1),
    2, "Skipped (already installed).", Frac1),
    3, "Skipped (already installed).", Frac1)

\* Variant of the editor-missing branch that reports step 7 before step 6.
NoEditorReportsOutOfOrder(rs) ==
  OnStep(OnStep(OnStep(rs,
    5, "VSCode not found.", Frac1),
    7, "Skipped (VSCode not found).", Frac1),
    6, "Skipped (VSCode not found).", Frac1)

\* The reports of the branch taken when vscode.FindCode fails.
MacNoEditorReports(rs) ==
  OnStep(OnStep(OnStep(rs,
    5, "VSCode not found.", Frac1),
    6, "Skipped (VSCode not found).", Frac1),
    7, "Skipped (VSCode not found).", Frac1)

\* Entry of Run up to the skip-or-install branch.  The GUI passes either
\* (existingDir, true) for Reuse or ("", false).
MacRun_Start ==
  /\ platform = "macos"
  /\ CanStart
  /\ \E reuse \in BOOLEAN, homeOk \in BOOLEAN :
       /\ reuse => machine.dest # "none"
       /\ LET c == [SkipInstall |-> reuse,
                    ExistingApp |-> IF reuse THEN AppDst(machine.appsWritable) ELSE "",
                    force |-> FALSE]
              ls == [NoLocals EXCEPT !.destBefore = machine.dest]
          IN
          IF ~homeOk
            THEN Finish(c, ls, NilResult, "get home dir", <<>>, <<>>, machine, 0)
          ELSE IF c.SkipInstall /\ c.ExistingApp # ""
            THEN Enter(c, "step4", MacSkipReports(<<>>),
                   [ls EXCEPT !.installedAppPath = c.ExistingApp])
          ELSE Enter(c, "step1", <<>>, ls)

\* Step 1: Download.
MacRun_Step1 ==
  /\ platform = "macos"
  /\ pc = "step1"
  /\ LET rs0 == OnStep(reports, 1, MacLabelDownload, Frac0) IN
     \E outcome \in {"http", "read", "ok"}, size \in 1..MaxChunks, known \in BOOLEAN,
        timed \in SUBSET (2..MaxChunks) :
       LET total == IF known THEN size ELSE -1 IN
       /\ timed \subseteq 2..size
       /\ CASE outcome = "http" ->
                 /\ timed = {}
                 /\ size = 1
                 /\ ~known
                 /\ Return(NilResult, "download", rs0,
                           Append(ops, Op("download", FALSE)), machine, 1)
            [] outcome = "read" ->
                 /\ \E upto \in 0..(size - 1) :
                      /\ timed \subseteq 2..upto
                      /\ Return(NilResult, "download",
                           DownloadReports(rs0,
                             ProgressCalls(timed \cup {1}, upto, size, total, FALSE),
                             MacLabelDownload),
                           Append(ops, Op("download", FALSE)),
                           [machine EXCEPT !.tmp = "partial"], 1)
            [] outcome = "ok" ->
                 Goto("step2",
                      DownloadReports(rs0,
                        ProgressCalls(timed \cup {1}, size, size, total, TRUE),
                        MacLabelDownload),
                      Append(ops, Op("download", TRUE)),
                      [machine EXCEPT !.tmp = "file"],
                      [locals EXCEPT !.deferRm = TRUE])

\* Step 2: VerifySHA256.
MacRun_Step2 ==
  /\ platform = "macos"
  /\ pc = "step2"
  /\ LET rs0 == OnStep(reports, 2, "Verifying checksum...", Frac0) IN
     \E d \in DigestOutcomes(manifest.SHA256) :
       LET ok == VerifySHA256(d.opened, d.got, manifest.SHA256)
           os == Append(ops, Op("VerifySHA256", ok))
           ls == [locals EXCEPT !.digest = d]
       IN
       IF ~ok
         THEN Finish(cfg, ls, NilResult, "checksum", rs0, os, machine, 2)
         ELSE Goto("step3", OnStep(rs0, 2, "Checksum verified.", Frac1), os,
                   machine, ls)

\* Step 3: mount, find the bundle, copy it, unmount.
MacRun_Step3 ==
  /\ platform = "macos"
  /\ pc = "step3"
  /\ LET rs0 == OnStep(reports, 3, "Installing Rocq Platform...", Frac0)
         mounted == [machine EXCEPT !.mounted = TRUE]
     IN
     \E mount \in {"attachErr", "noMountPoint", "ok"} :
       IF mount # "ok"
         THEN Return(NilResult, "mount DMG", rs0,
                     Append(ops, Op("hdiutil attach", FALSE)), machine, 3)
         ELSE
           \E find \in {"readErr", "none", "top", "deeper"},
              detachOk \in BOOLEAN, forceOk \in BOOLEAN :
             LET un == UnmountDMG(detachOk, forceOk) IN
             /\ (detachOk => forceOk)
             /\ IF find \in {"readErr", "none"}
                  THEN Return(NilResult, "find app in DMG", rs0,
                              ops \o <<Op("hdiutil attach", TRUE), Op("FindAppInDMG", FALSE)>>
                                  \o un.ops,
                              [mounted EXCEPT !.mounted = un.mounted], 3)
                  ELSE
                    \E o \in RelevantOutcomes(machine, FALSE) :
                      LET ins == InstallApp(machine, FALSE, o)
                          rs1 == OnStep(rs0, 3,
                                   "Copying " \o AppName \o " to Applications...", FracHalf)
                          os1 == ops \o <<Op("hdiutil attach", TRUE),
                                          Op("FindAppInDMG", TRUE)>>
                                     \o ins.ops
                                     \o <<Op("InstallApp", ins.err = "")>>
                                     \o un.ops
                          m1 == [mounted EXCEPT !.mounted = un.mounted, !.dest = ins.dest]
                      IN
                      IF ins.err # ""
                        THEN Return(NilResult, "install app", rs1, os1, m1, 3)
                        ELSE Goto("step4",
                                  OnStep(rs1, 3, "Rocq Platform installed.", Frac1),
                                  os1, m1,
                                  [locals EXCEPT !.installedAppPath = ins.path])

\* Step 4: FindVsrocqtop.
MacRun_Step4 ==
  /\ platform = "macos"
  /\ pc = "step4"
  /\ LET rs0 == OnStep(reports, 4, "Locating vsrocqtop...", Frac0)
         ls0 == [locals EXCEPT !.result.InstalledApp = locals.installedAppPath]
     IN
     \E found \in BOOLEAN :
       IF ~found
         THEN Goto("step5",
                   OnStep(rs0, 4, "vsrocqtop not found (will skip VSCode settings).", Frac1),
                   Append(ops, Op("FindVsrocqtop", FALSE)), machine, ls0)
         ELSE Goto("step5", OnStep(rs0, 4, "Found vsrocqtop.", Frac1),
                   Append(ops, Op("FindVsrocqtop", TRUE)), machine,
                   [ls0 EXCEPT !.vsrocqtopPath = "vsrocqtop",
                               !.result.VsrocqtopPath = "vsrocqtop"])

\* Step 5: FindCode and InstallExtension.
MacRun_Step5 ==
  /\ platform = "macos"
  /\ pc = "step5"
  /\ LET rs0 == OnStep(reports, 5, "Checking for VSCode...", Frac0) IN
     \E found \in BOOLEAN, extOk \in BOOLEAN :
       IF ~found
         THEN /\ extOk
              /\ Return([locals.result EXCEPT !.VSCodeFound = FALSE], "",
                        MacNoEditorReports(rs0),
                        Append(ops, Op("FindCode", FALSE)), machine, 5)
         ELSE Goto("step6", OnStep(rs0, 5, "VSCode extension installed.", Frac1),
                   ops \o <<Op("FindCode", TRUE), Op("InstallExtension", extOk)>>,
                   machine,
                   [locals EXCEPT !.codeBin = "code", !.result.VSCodeFound = TRUE])

\* Step 6: workspace.Create.
MacRun_Step6 ==
  /\ platform = "macos"
  /\ pc = "step6"
  /\ LET rs0 == OnStep(reports, 6, "Creating workspace...", Frac0) IN
     \E ok \in BOOLEAN :
       IF ~ok
         THEN Return(NilResult, "workspace", rs0,
                     Append(ops, Op("workspace.Create", FALSE)), machine, 6)
         ELSE Goto("step7", OnStep(rs0, 6, "Workspace created.", Frac1),
                   Append(ops, Op("workspace.Create", TRUE)),
                   [machine EXCEPT !.workspace = TRUE], locals)

\* Step 7: WriteVSCodeSettings and OpenWorkspace.
MacRun_Step7 ==
  /\ platform = "macos"
  /\ pc = "step7"
  /\ LET rs0 == OnStep(reports, 7, "Configuring VSCode...", Frac0) IN
     \E writeOk \in BOOLEAN, openOk \in BOOLEAN :
       LET os0 == IF locals.vsrocqtopPath # ""
                  THEN Append(ops, Op("WriteVSCodeSettings", writeOk))
                  ELSE ops
       IN
       IF locals.vsrocqtopPath # "" /\ ~writeOk
         THEN /\ openOk
              /\ Return(NilResult, "vscode config", rs0, os0, machine, 7)
         ELSE /\ (locals.vsrocqtopPath = "" => writeOk)
              /\ Return(locals.result, "", OnStep(rs0, 7, "Done!", Frac1),
                        Append(os0, Op("OpenWorkspace", openOk)),
                        machine, 7)

MacRun ==
  \/ MacRun_Start
  \/ MacRun_Step1
  \/ MacRun_Step2
  \/ MacRun_Step3
  \/ MacRun_Step4
  \/ MacRun_Step5
  \/ MacRun_Step6
  \/ MacRun_Step7

-----------------------------------------------------------------------------
(* Windows pipeline: installer.Run *)

WinLabelDownload == "Downloading Rocq Platform installer..."

\* Variant of the reuse branch that does not report step 2.
SkipReportsWithoutVerify(rs) ==
  OnStep(OnStep(rs,
    1, "Rocq Platform already installed, skipping download.", Frac1),
    3, "Skipped (already installed).", Frac1)

\* The reports of the reuse branch.
WinSkipReports(rs) ==
  OnStep(OnStep(OnStep(rs,
    1, "Rocq Platform already installed, skipping download.", Frac1),
    2, "Skipped (already installed).", Frac1),
    3, "Skipped (already installed).", Frac1)

\* Variant of the editor-missing branch that stops after step 5.
NoEditorReportsStep5Only(rs) ==
  OnStep(rs, 5, "VSCode not found.", Frac1)

\* The reports of the branch taken when vscode.FindCode fails.
WinNoEditorReports(rs) ==
  OnStep(OnStep(OnStep(rs,
    5, "VSCode not found.", Frac1),
    6, "Skipped (VSCode not found).", Frac1),
    7, "Skipped (VSCode not found).", Frac1)

\* Download and VerifySHA256 of the Windows package follow the acquisition
\* contract that the macOS ones implement.
WinProgressCalls(timed, upto, size, total, completed) ==
  ProgressCalls(timed, upto, size, total, completed)

WinVerifySHA256(opened, got, expected) == VerifySHA256(opened, got, expected)

WinInstallDir == "C:\\Rocq-platform~9.0~2025.08"

\* shellExecuteAsAdmin: TRUE when it returns nil.
ShellExecuteAsAdmin(outcome) == outcome \in {"noHandle", "exit0"}

InnoOutcomes == {"launchErr", "noHandle", "waitFailed", "exitCodeErr", "nonzero", "exit0"}

\* The system calls of shellExecuteAsAdmin under an outcome, in order: the wait
\* and the exit-code query are made only when a process handle was returned.
InnoCalls(outcome) ==
  <<Op("ShellExecuteEx", outcome # "launchErr")>>
  \o (IF outcome \in {"launchErr", "noHandle"} THEN <<>>
      ELSE <<Op("WaitForSingleObject", outcome # "waitFailed")>>)
  \o (IF outcome \in {"launchErr", "noHandle", "waitFailed"} THEN <<>>
      ELSE <<Op("GetExitCodeProcess", outcome # "exitCodeErr")>>)
  \o (IF outcome \in {"nonzero", "exit0"}
      THEN <<Op("installer exit code 0", outcome = "exit0")>> ELSE <<>>)

WinRun_Start ==
  /\ platform = "windows"
  /\ CanStart
  /\ \E skip \in BOOLEAN, homeOk \in BOOLEAN :
       LET c == [SkipInstall |-> skip, ExistingApp |-> "", force |-> FALSE]
           ls == [NoLocals EXCEPT !.result.InstallDir = WinInstallDir,
                                  !.installedAppPath = WinInstallDir,
                                  !.destBefore = machine.dest]
           alreadyInstalled == c.SkipInstall \/ machine.dest # "none"
       IN
       IF ~homeOk
         THEN Finish(c, ls, NilResult, "get home dir", <<>>, <<>>, machine, 0)
       ELSE IF alreadyInstalled
         THEN Enter(c, "step4", WinSkipReports(<<>>), ls)
       ELSE Enter(c, "step1", <<>>, ls)

WinRun_Step1 ==
  /\ platform = "windows"
  /\ pc = "step1"
  /\ LET rs0 == OnStep(reports, 1, WinLabelDownload, Frac0) IN
     \E outcome \in {"http", "read", "ok"}, size \in 1..MaxChunks, known \in BOOLEAN,
        timed \in SUBSET (2..MaxChunks) :
       LET total == IF known THEN size ELSE -1 IN
       /\ timed \subseteq 2..size
       /\ CASE outcome = "http" ->
                 /\ timed = {}
                 /\ size = 1
                 /\ ~known
                 /\ Return(NilResult, "download", rs0,
                           Append(ops, Op("download", FALSE)), machine, 1)
            [] outcome = "read" ->
                 /\ \E upto \in 0..(size - 1) :
                      /\ timed \subseteq 2..upto
                      /\ Return(NilResult, "download",
                           DownloadReports(rs0,
                             WinProgressCalls(timed \cup {1}, upto, size, total, FALSE),
                             WinLabelDownload),
                           Append(ops, Op("download", FALSE)),
                           [machine EXCEPT !.tmp = "partial"], 1)
            [] outcome = "ok" ->
                 Goto("step2",
                      DownloadReports(rs0,
                        WinProgressCalls(timed \cup {1}, size, size, total, TRUE),
                        WinLabelDownload),
                      Append(ops, Op("download", TRUE)),
                      [machine EXCEPT !.tmp = "file"],
                      [locals EXCEPT !.deferRm = TRUE])

WinRun_Step2 ==
  /\ platform = "windows"
  /\ pc = "step2"
  /\ LET rs0 == OnStep(reports, 2, "Verifying checksum...", Frac0) IN
     \E d \in DigestOutcomes(manifest.SHA256) :
       LET ok == WinVerifySHA256(d.opened, d.got, manifest.SHA256)
           os == Append(ops, Op("VerifySHA256", ok))
           ls == [locals EXCEPT !.digest = d]
       IN
       IF ~ok
         THEN Finish(cfg, ls, NilResult, "checksum", rs0, os, machine, 2)
         ELSE Goto("step3", OnStep(rs0, 2, "Checksum verified.", Frac1), os,
                   machine, ls)

\* Step 3: RunInnoSetup.
WinRun_Step3 ==
  /\ platform = "windows"
  /\ pc = "step3"
  /\ LET rs0 == OnStep(reports, 3,
                  "Installing Rocq Platform (follow the installer window)...", Frac0)
     IN
     \E outcome \in InnoOutcomes :
       LET ok == ShellExecuteAsAdmin(outcome)
           os == Append(ops \o InnoCalls(outcome), Op("RunInnoSetup", ok))
           m == IF outcome = "exit0" THEN [machine EXCEPT !.dest = "new"] ELSE machine
       IN
       IF ~ok
         THEN Return(NilResult, "install", rs0, os, m, 3)
         ELSE Goto("step4", OnStep(rs0, 3, "Rocq Platform installed.", Frac1), os, m, locals)

WinRun_Step4 ==
  /\ platform = "windows"
  /\ pc = "step4"
  /\ LET rs0 == OnStep(reports, 4, "Locating vsrocqtop...", Frac0) IN
     \E found \in BOOLEAN :
       IF ~found
         THEN Goto("step5",
                   OnStep(rs0, 4, "vsrocqtop not found (will skip VSCode settings).", Frac1),
                   Append(ops, Op("FindVsrocqtop", FALSE)), machine, locals)
         ELSE Goto("step5", OnStep(rs0, 4, "Found vsrocqtop.", Frac1),
                   Append(ops, Op("FindVsrocqtop", TRUE)), machine,
                   [locals EXCEPT !.vsrocqtopPath = "vsrocqtop.exe"])

WinRun_Step5 ==
  /\ platform = "windows"
  /\ pc = "step5"
  /\ LET rs0 == OnStep(reports, 5, "Checking for VSCode...", Frac0) IN
     \E found \in BOOLEAN, extOk \in BOOLEAN :
       IF ~found
         THEN /\ extOk
              /\ Return([locals.result EXCEPT !.VSCodeFound = FALSE], "",
                        WinNoEditorReports(rs0),
                        Append(ops, Op("FindCode", FALSE)), machine, 5)
         ELSE Goto("step6", OnStep(rs0, 5, "VSCode extension installed.", Frac1),
                   ops \o <<Op("FindCode", TRUE), Op("InstallExtension", extOk)>>,
                   machine,
                   [locals EXCEPT !.codeBin = "code", !.result.VSCodeFound = TRUE])

WinRun_Step6 ==
  /\ platform = "windows"
  /\ pc = "step6"
  /\ LET rs0 == OnStep(reports, 6, "Creating workspace...", Frac0) IN
     \E ok \in BOOLEAN :
       IF ~ok
         THEN Return(NilResult, "workspace", rs0,
                     Append(ops, Op("workspace.Create", FALSE)), machine, 6)
         ELSE Goto("step7", OnStep(rs0, 6, "Workspace created.", Frac1),
                   Append(ops, Op("workspace.Create", TRUE)),
                   [machine EXCEPT !.workspace = TRUE], locals)

WinRun_Step7 ==
  /\ platform = "windows"
  /\ pc = "step7"
  /\ LET rs0 == OnStep(reports, 7, "Configuring VSCode...", Frac0) IN
     \E writeOk \in BOOLEAN, openOk \in BOOLEAN :
       LET os0 == IF locals.vsrocqtopPath # ""
                  THEN Append(ops, Op("WriteVSCodeSettings", writeOk))
                  ELSE ops
       IN
       IF locals.vsrocqtopPath # "" /\ ~writeOk
         THEN /\ openOk
              /\ Return(NilResult, "vscode config", rs0, os0, machine, 7)
         ELSE /\ (locals.vsrocqtopPath = "" => writeOk)
              /\ Return(locals.result, "", OnStep(rs0, 7, "Done!", Frac1),
                        Append(os0, Op("OpenWorkspace", openOk)), machine, 7)

WinRun ==
  \/ WinRun_Start
  \/ WinRun_Step1
  \/ WinRun_Step2
  \/ WinRun_Step3
  \/ WinRun_Step4
  \/ WinRun_Step5
  \/ WinRun_Step6
  \/ WinRun_Step7

-----------------------------------------------------------------------------
(* Linux pipeline: installer.Run *)

LinSwitchName == "CP.2025.08.1~9.0"

\* Variant of the progress estimate without the cap.
LineFractionUncapped(n) == <<n, 200>>

\* The progress estimate of installPackages after n output lines.
LineFraction(n) == IF n * 100 > 95 * 200 THEN <<95, 100>> ELSE <<n, 200>>

RECURSIVE LineReports(_, _, _)
LineReports(rs, n, upto) ==
  IF n > upto THEN rs
  ELSE LineReports(OnStep(rs, 5, "Installing Rocq packages...", LineFraction(n)), n + 1, upto)

\* The reports of the reuse branch.
LinSkipReports(rs) ==
  OnStep(OnStep(OnStep(OnStep(OnStep(rs,
    1, "Opam already available, skipping.", Frac1),
    2, "Skipped (reusing switch).", Frac1),
    3, "Skipped (reusing switch).", Frac1),
    4, "Skipped (reusing switch).", Frac1),
    5, "Skipped (reusing switch).", Frac1)

LinRun_Start ==
  /\ platform = "linux"
  /\ CanStart
  /\ \E skip \in BOOLEAN, homeOk \in BOOLEAN :
       /\ skip => machine.dest # "none"
       /\ LET c == [SkipInstall |-> skip, ExistingApp |-> "", force |-> FALSE]
              ls == [NoLocals EXCEPT !.result.SwitchName = LinSwitchName,
                                     !.installedAppPath = LinSwitchName,
                                     !.destBefore = machine.dest]
          IN
          IF ~homeOk
            THEN Finish(c, ls, NilResult, "get home dir", <<>>, <<>>, machine, 0)
          ELSE IF c.SkipInstall
            THEN Enter(c, "step6", LinSkipReports(<<>>), ls)
          ELSE Enter(c, "step1", <<>>, ls)

\* Step 1: ensureOpam looks opam up on PATH and checks its version; it installs
\* nothing.
LinRun_Step1 ==
  /\ platform = "linux"
  /\ pc = "step1"
  /\ LET rs0 == OnStep(reports, 1, "Checking for opam...", Frac0) IN
     \E opam \in {"absent", "noVersion", "v1", "v2"} :
       IF opam = "absent"
         THEN Return(NilResult, "opam: opam not found in PATH", rs0,
                     Append(ops, Op("ensureOpam", FALSE)), machine, 1)
       ELSE IF opam = "v1"
         THEN Return(NilResult, "opam: opam >= 2.x required", rs0,
                     Append(ops, Op("ensureOpam", FALSE)), machine, 1)
         ELSE Goto("step2", OnStep(rs0, 1, "Opam found.", Frac1),
                   Append(ops, Op("ensureOpam", TRUE)), machine, locals)

\* Step 2: initOpam.  os.UserHomeDir has succeeded at the entry of Run.
LinRun_Step2 ==
  /\ platform = "linux"
  /\ pc = "step2"
  /\ LET rs0 == OnStep(reports, 2, "Initializing opam...", Frac0) IN
     \E initOk \in BOOLEAN :
       IF machine.opamInit
         THEN /\ initOk
              /\ Goto("step3", OnStep(rs0, 2, "Opam initialized.", Frac1), ops, machine, locals)
       ELSE IF ~initOk
         THEN Return(NilResult, "opam init", rs0, Append(ops, Op("opam init", FALSE)),
                     machine, 2)
       ELSE Goto("step3", OnStep(rs0, 2, "Opam initialized.", Frac1),
                 Append(ops, Op("opam init", TRUE)),
                 [machine EXCEPT !.opamInit = TRUE], locals)

\* Step 3: createSwitch.
LinRun_Step3 ==
  /\ platform = "linux"
  /\ pc = "step3"
  /\ LET rs0 == OnStep(reports, 3, "Creating opam switch " \o LinSwitchName \o "...", Frac0)
         rs1 == OnStep(rs0, 3, "Switch " \o LinSwitchName \o " ready.", Frac1)
     IN
     \E listOk \in BOOLEAN, createOk \in BOOLEAN :
       IF listOk /\ machine.dest # "none"
         THEN /\ createOk
              /\ Goto("step4", rs1, Append(ops, Op("opam switch list", TRUE)),
                      machine, locals)
       ELSE IF ~createOk \/ machine.dest # "none"
         THEN /\ ~createOk
              /\ Return(NilResult, "create switch", rs0,
                        ops \o <<Op("opam switch list", listOk),
                                 Op("opam switch create", FALSE)>>, machine, 3)
       ELSE Goto("step4", rs1,
                 ops \o <<Op("opam switch list", listOk), Op("opam switch create", TRUE)>>,
                 [machine EXCEPT !.dest = "new"], locals)

\* Step 4: configureRepo.
LinRun_Step4 ==
  /\ platform = "linux"
  /\ pc = "step4"
  /\ LET rs0 == OnStep(reports, 4, "Configuring opam repository...", Frac0) IN
     \E addOk \in BOOLEAN, setUrlOk \in BOOLEAN, prioOk \in BOOLEAN, updateOk \in BOOLEAN :
       LET os0 == IF addOk THEN Append(ops, Op("opam repo add", TRUE))
                  ELSE ops \o <<Op("opam repo add", FALSE), Op("opam repo set-url", setUrlOk)>>
       IN
       IF ~addOk /\ ~setUrlOk
         THEN /\ prioOk /\ updateOk
              /\ Return(NilResult, "configure repo", rs0, os0, machine, 4)
         ELSE /\ (addOk => setUrlOk)
              /\ Goto("step5", OnStep(rs0, 4, "Repository configured.", Frac1),
                      os0 \o <<Op("opam repo priority", prioOk), Op("opam update", updateOk)>>,
                      machine, locals)

\* Step 5: installPackages.
LinRun_Step5 ==
  /\ platform = "linux"
  /\ pc = "step5"
  /\ LET rs0 == OnStep(reports, 5,
                  "Installing Rocq packages (this may take a while)...", Frac0)
     IN
     \E outcome \in {"pipeErr", "startErr", "waitErr", "ok"}, lines \in 0..MaxLines :
       IF outcome \in {"pipeErr", "startErr"}
         THEN /\ lines = 0
              /\ Return(NilResult, "install packages", rs0,
                        Append(ops, Op("opam install", FALSE)), machine, 5)
       ELSE IF outcome = "waitErr"
         THEN Return(NilResult, "install packages", LineReports(rs0, 1, lines),
                     Append(ops, Op("opam install", FALSE)), machine, 5)
       ELSE Goto("step6",
                 OnStep(LineReports(rs0, 1, lines), 5, "Rocq packages installed.", Frac1),
                 Append(ops, Op("opam install", TRUE)), machine, locals)

\* Step 6: workspace.Create and WriteActivationScripts.
LinRun_Step6 ==
  /\ platform = "linux"
  /\ pc = "step6"
  /\ LET rs0 == OnStep(reports, 6, "Creating workspace...", Frac0) IN
     \E createOk \in BOOLEAN, scriptsOk \in BOOLEAN :
       IF ~createOk
         THEN /\ scriptsOk
              /\ Return(NilResult, "workspace", rs0,
                        Append(ops, Op("workspace.Create", FALSE)), machine, 6)
       ELSE IF ~scriptsOk
         THEN Return(NilResult, "activation scripts", rs0,
                     ops \o <<Op("workspace.Create", TRUE),
                              Op("WriteActivationScripts", FALSE)>>,
                     [machine EXCEPT !.workspace = TRUE], 6)
       ELSE Goto("step7", OnStep(rs0, 6, "Workspace created.", Frac1),
                 ops \o <<Op("workspace.Create", TRUE), Op("WriteActivationScripts", TRUE)>>,
                 [machine EXCEPT !.workspace = TRUE], locals)

\* Step 7: FindCode, InstallExtension, WriteVSCodeSettings, OpenWorkspace.
LinRun_Step7 ==
  /\ platform = "linux"
  /\ pc = "step7"
  /\ LET rs0 == OnStep(reports, 7, "Checking for VSCode...", Frac0) IN
     \E found \in BOOLEAN, extOk \in BOOLEAN, top \in BOOLEAN, writeOk \in BOOLEAN,
        openOk \in BOOLEAN :
       IF ~found
         THEN /\ extOk /\ top /\ writeOk /\ openOk
              /\ Return([locals.result EXCEPT !.VSCodeFound = FALSE], "",
                        OnStep(rs0, 7, "VSCode not found.", Frac1),
                        Append(ops, Op("FindCode", FALSE)), machine, 7)
       ELSE
         LET os0 == ops \o <<Op("FindCode", TRUE), Op("InstallExtension", extOk),
                             Op("findVsrocqtop", top)>>
         IN
         IF top /\ ~writeOk
           THEN /\ openOk
                /\ Return(NilResult, "vscode config", rs0,
                          Append(os0, Op("WriteVSCodeSettings", FALSE)), machine, 7)
           ELSE /\ (~top => writeOk)
                /\ Return([locals.result EXCEPT !.VSCodeFound = TRUE], "",
                          OnStep(rs0, 7, "Done!", Frac1),
                          (IF top THEN Append(os0, Op("WriteVSCodeSettings", TRUE)) ELSE os0)
                             \o <<Op("OpenWorkspace", openOk)>>,
                          machine, 7)

LinRun ==
  \/ LinRun_Start
  \/ LinRun_Step1
  \/ LinRun_Step2
  \/ LinRun_Step3
  \/ LinRun_Step4
  \/ LinRun_Step5
  \/ LinRun_Step6
  \/ LinRun_Step7

-----------------------------------------------------------------------------
(* Shell installer, macOS strategy: install_rocq_macos *)

\* sha256_check: TRUE when it returns instead of calling die.
\* Variant of sha256_check without the test for an empty expected hash.
ShSha256AlwaysCompares(got, expected) == got = expected

ShSha256Check(got, expected) == expected = <<>> \/ got = expected

\* The test of install_macos.sh line 45.
ShSkipsCopy(exists, FORCE) == exists /\ FORCE = 0

\* parse_args: --force sets FORCE.
ShMac_Start ==
  /\ platform = "sh_macos"
  /\ CanStart
  /\ \E FORCE \in {0, 1} :
       Enter([SkipInstall |-> FALSE, ExistingApp |-> "", force |-> FORCE = 1],
             "sh_acquire", <<>>, [NoLocals EXCEPT !.destBefore = machine.dest])

\* download and sha256_check.
ShMac_Acquire ==
  /\ platform = "sh_macos"
  /\ pc = "sh_acquire"
  /\ \E dl \in BOOLEAN, got \in FileHashes :
       IF ~dl
         THEN /\ got = CHOOSE h \in FileHashes : TRUE
              /\ Return(NilResult, "curl", reports, Append(ops, Op("download", FALSE)),
                        [machine EXCEPT !.tmp = "partial"], 1)
       ELSE IF ~ShSha256Check(got, manifest.SHA256)
         THEN Return(NilResult, "SHA256 mismatch", reports,
                     ops \o <<Op("download", TRUE), Op("sha256_check", FALSE)>>,
                     [machine EXCEPT !.tmp = "file"], 2)
       ELSE Goto("sh_install", reports,
                 ops \o <<Op("download", TRUE), Op("sha256_check", TRUE)>>,
                 [machine EXCEPT !.tmp = "file"], locals)

\* Mount, find the bundle, copy it, detach, resolve vsrocqtop (set -e is on).
ShMac_Install ==
  /\ platform = "sh_macos"
  /\ pc = "sh_install"
  /\ \E mount \in {"attachErr", "noMountPoint", "ok"}, found \in BOOLEAN,
        mkdirOk \in BOOLEAN, rsyncOk \in BOOLEAN, leftover \in {"none", "partial"},
        detachOk \in BOOLEAN, top \in BOOLEAN :
       LET FORCE == IF cfg.force THEN 1 ELSE 0
           dst == AppDst(machine.appsWritable)
           mounted == [machine EXCEPT !.mounted = TRUE]
           os1 == ops \o <<Op("hdiutil attach", TRUE), Op("find", found)>>
           fixed == /\ found /\ mkdirOk /\ rsyncOk /\ leftover = "none" /\ detachOk /\ top
       IN
       IF mount = "attachErr"
         THEN /\ fixed
              /\ Return(NilResult, "hdiutil attach", reports,
                        Append(ops, Op("hdiutil attach", FALSE)), machine, 3)
       ELSE IF mount = "noMountPoint"
         THEN /\ fixed
              /\ Return(NilResult, "Failed to mount DMG", reports,
                        Append(ops, Op("hdiutil attach", FALSE)), machine, 3)
       ELSE IF ~found
         THEN /\ mkdirOk /\ rsyncOk /\ leftover = "none" /\ detachOk /\ top
              /\ Return(NilResult, "No .app found in DMG", reports, os1, mounted, 3)
       ELSE IF ~machine.appsWritable /\ machine.dest = "none" /\ ~mkdirOk
         THEN /\ rsyncOk /\ leftover = "none" /\ detachOk /\ top
              /\ Return(NilResult, "mkdir", reports, os1, mounted, 3)
       ELSE
         LET skip == ShSkipsCopy(machine.dest # "none", FORCE)
             os2 == IF skip THEN os1
                    ELSE os1 \o <<Op("rm -rf", TRUE), Op("rsync", rsyncOk)>>
         IN
         IF ~skip /\ ~rsyncOk
           THEN /\ detachOk /\ top
                /\ Return(NilResult, "rsync", reports, os2,
                          [mounted EXCEPT !.dest = leftover], 3)
           ELSE
             LET m3 == [mounted EXCEPT !.dest = IF skip THEN machine.dest ELSE "new",
                                       !.mounted = ~detachOk]
                 os3 == os2 \o <<Op("hdiutil detach", detachOk),
                                 Op("find_vsrocqtop_macos", top)>>
                 ls3 == [locals EXCEPT !.installedAppPath = dst]
             IN
             /\ (skip => rsyncOk /\ leftover = "none")
             /\ (~skip => leftover = "none")
             /\ IF ~top
                  THEN Finish(cfg, ls3, NilResult, "vsrocqtop not found after macOS install",
                              reports, os3, m3, 4)
                  ELSE Finish(cfg, [ls3 EXCEPT !.vsrocqtopPath = "vsrocqtop"],
                              NilResult, "", reports, os3, m3, 4)

ShMac ==
  \/ ShMac_Start
  \/ ShMac_Acquire
  \/ ShMac_Install

-----------------------------------------------------------------------------
(* Shell installer, Linux strategy: install_rocq_linux_opam *)

DigitChar(d) ==
  CASE d = 0 -> "0" [] d = 1 -> "1" [] d = 2 -> "2" [] d = 3 -> "3" [] d = 4 -> "4"
    [] d = 5 -> "5" [] d = 6 -> "6" [] d = 7 -> "7" [] d = 8 -> "8" [] d = 9 -> "9"

\* The decimal digits of n.
RECURSIVE Itoa(_)
Itoa(n) == IF n < 10 THEN <<DigitChar(n)>> ELSE Itoa(n \div 10) \o <<DigitChar(n % 10)>>

\* A version <<major, minor, patch>> as the text "major.minor.patch".
FormatVersion(v) == Itoa(v[1]) \o <<".">> \o Itoa(v[2]) \o <<".">> \o Itoa(v[3])

\* The expansion ${s%.*}: s without its shortest suffix that starts with a dot.
StripDotSuffix(s) ==
  LET dots == {i \in 1..Len(s) : s[i] = "."} IN
  IF dots = {} THEN s
  ELSE SubSeq(s, 1, (CHOOSE i \in dots : \A j \in dots : j <= i) - 1)

\* grep -q pattern on one line, for a pattern of literal characters and dots:
\* the pattern may match anywhere in the line and a dot matches any character.
GrepQ(pattern, line) ==
  \E k \in 0..(Len(line) - Len(pattern)) :
    \A i \in 1..Len(pattern) : pattern[i] = "." \/ pattern[i] = line[k + i]

OcamlVersion == <<4, 14, 2>>

\* rocq --print-version: the version of the binary and of its compiler.
PrintVersion(bin) == FormatVersion(bin.ver) \o <<" ">> \o FormatVersion(OcamlVersion)

\* The first line of rocq --version.
VersionBanner(bin) ==
  <<"v", "e", "r", "s", "i", "o", "n", " ">> \o FormatVersion(bin.ver)

\* The text the version check reads from the binary (lines 180-183).
ReportedVersion(bin) == IF bin.printOk THEN PrintVersion(bin) ELSE VersionBanner(bin)

\* The test of line 187: TRUE when the run goes on, FALSE when it dies.
VersionAccepted(got, ROCQ_VERSION) == GrepQ(StripDotSuffix(ROCQ_VERSION), got)

RequestedVersions == {<<9, 0, 0>>, <<9, 1, 0>>, <<8, 19, 0>>}

NoBinary == [present |-> FALSE, ver |-> <<0, 0, 0>>, printOk |-> FALSE]

Binaries ==
  {[present |-> TRUE, ver |-> <<ma, mi, pa>>, printOk |-> po] :
     ma \in {8, 9}, mi \in {0, 1, 19}, pa \in {0, 1}, po \in BOOLEAN}

\* The script exits: die, or a failing command under set -e.
ShDie(msg, os, m, ls) ==
  /\ pc' = "done"
  /\ err' = msg
  /\ ops' = os
  /\ machine' = m
  /\ locals' = ls
  /\ UNCHANGED <<platform, manifest, cfg, reports, result, prev, runs, gui>>

ShNext(next, os, m, ls) ==
  /\ pc' = next
  /\ ops' = os
  /\ machine' = m
  /\ locals' = ls
  /\ UNCHANGED <<platform, manifest, cfg, reports, result, err, prev, runs, gui>>

\* Lines 81-91: ensure_opam, the opam version test and opam init.
ShLin_EnsureOpam ==
  /\ platform = "sh_linux"
  /\ pc = "sh_opam"
  /\ \E boot \in {"ok", "fail"}, bootVer \in {"v1", "v2"}, initOk \in BOOLEAN :
       LET absent == machine.opam = "absent"
           os0 == IF absent THEN Append(ops, Op("install opam", boot = "ok")) ELSE ops
           ver == IF absent THEN bootVer ELSE machine.opam
           m0 == IF absent /\ boot = "ok" THEN [machine EXCEPT !.opam = ver] ELSE machine
       IN
       /\ (~absent => boot = "ok" /\ bootVer = "v2")
       /\ IF absent /\ boot = "fail"
            THEN /\ bootVer = "v2" /\ initOk
                 /\ ShDie("opam installation failed", os0, m0, locals)
          ELSE IF ver # "v2"
            THEN /\ initOk
                 /\ ShDie("opam >= 2.1.0 required", os0, m0, locals)
          ELSE IF m0.opamDir
            THEN /\ initOk
                 /\ ShNext("sh_switch", os0, m0, locals)
          ELSE IF ~initOk
            THEN ShDie("opam init", Append(os0, Op("opam init", FALSE)), m0, locals)
          ELSE ShNext("sh_switch", Append(os0, Op("opam init", TRUE)),
                      [m0 EXCEPT !.opamDir = TRUE], locals)

\* Variant of the removal test that ignores the recreate flag.
ShRemovesWheneverFound(found, RECREATE_SWITCH) == found

\* The tests of lines 103-104: the switch is listed and a recreation is requested.
ShRemovesSwitch(found, RECREATE_SWITCH) == found /\ RECREATE_SWITCH = 1

\* Lines 94-117: the switch is removed when the listing shows it and a
\* recreation is requested, and created when the second listing does not show
\* it.  A listing that fails shows nothing.
ShLin_Switch ==
  /\ platform = "sh_linux"
  /\ pc = "sh_switch"
  /\ \E list1Ok \in BOOLEAN, removeOk \in BOOLEAN, list2Ok \in BOOLEAN, createOk \in BOOLEAN :
       LET ls == [locals EXCEPT !.rocq_mm = StripDotSuffix(FormatVersion(manifest.ROCQ_VERSION))]
           found1 == list1Ok /\ machine.dest # "none"
           remove == ShRemovesSwitch(found1, cfg.RECREATE_SWITCH)
           os0 == Append(ops, Op("opam switch list", list1Ok))
           os1 == IF remove THEN Append(os0, Op("opam switch remove", removeOk)) ELSE os0
           m1 == IF remove /\ removeOk THEN [machine EXCEPT !.dest = "none"] ELSE machine
           found2 == list2Ok /\ m1.dest # "none"
           os2 == Append(os1, Op("opam switch list", list2Ok))
       IN
       /\ (~remove => removeOk)
       /\ IF remove /\ ~removeOk
            THEN /\ list2Ok /\ createOk
                 /\ ShDie("opam switch remove", os1, m1, ls)
          ELSE IF found2
            THEN /\ createOk
                 /\ ShNext("sh_repo", os2, m1, ls)
          ELSE IF ~createOk \/ m1.dest # "none"
            THEN /\ ~createOk
                 /\ ShDie("opam switch create",
                          Append(os2, Op("opam switch create", FALSE)), m1, ls)
          ELSE ShNext("sh_repo", Append(os2, Op("opam switch create", TRUE)),
                      [m1 EXCEPT !.dest = "new"], ls)

\* Lines 119-132: the repository of the switch.
ShLin_Repo ==
  /\ platform = "sh_linux"
  /\ pc = "sh_repo"
  /\ \E addOk \in BOOLEAN, failing \in {"none", "set-url", "set-repos", "priority", "update"} :
       LET os0 == Append(ops, Op("opam repo add", addOk)) IN
       /\ (addOk => failing # "set-url")
       /\ IF failing = "none"
            THEN ShNext("sh_packages", Append(os0, Op("opam update", TRUE)), machine, locals)
            ELSE ShDie("opam repo " \o failing, os0, machine, locals)

\* Lines 134-155: the pinned packages and the language server.
ShLin_Packages ==
  /\ platform = "sh_linux"
  /\ pc = "sh_packages"
  /\ \E stackOk \in BOOLEAN, lsOk \in BOOLEAN, bin \in Binaries \cup {NoBinary},
        top \in BOOLEAN :
       LET os0 == Append(ops, Op("opam install", stackOk)) IN
       IF ~stackOk
         THEN /\ lsOk /\ bin = NoBinary /\ ~top
              /\ ShDie("opam install", os0, machine, locals)
       ELSE IF cfg.SKIP_VSCODE = 1
         THEN /\ lsOk /\ ~top
              /\ ShNext("sh_binaries", os0, [machine EXCEPT !.rocq = bin], locals)
       ELSE IF ~lsOk
         THEN /\ ~top
              /\ ShDie("opam install vsrocq-language-server",
                       Append(os0, Op("opam install vsrocq-language-server", FALSE)),
                       [machine EXCEPT !.rocq = bin], locals)
       ELSE ShNext("sh_binaries",
                   Append(os0, Op("opam install vsrocq-language-server", TRUE)),
                   [machine EXCEPT !.rocq = bin, !.vsrocqtop = top], locals)

\* Lines 157-176: the binaries of the switch.
ShLin_Binaries ==
  /\ platform = "sh_linux"
  /\ pc = "sh_binaries"
  /\ IF ~machine.vsrocqtop /\ cfg.SKIP_VSCODE # 1
       THEN ShDie("vsrocqtop not found in switch bin", ops, machine, locals)
     ELSE IF ~machine.rocq.present
       THEN ShDie("rocq not found in switch bin", ops, machine, locals)
     ELSE ShNext("sh_version", ops, machine,
                 [locals EXCEPT !.vsrocqtopPath =
                    IF machine.vsrocqtop THEN "vsrocqtop" ELSE ""])

\* Lines 178-187: the version of the installed binary.
ShLin_VerifyVersion ==
  /\ platform = "sh_linux"
  /\ pc = "sh_version"
  /\ LET got == ReportedVersion(machine.rocq)
         ls == [locals EXCEPT !.got = got]
         os == Append(ops, Op("grep -q", VersionAccepted(got, FormatVersion(manifest.ROCQ_VERSION))))
     IN
     IF VersionAccepted(got, FormatVersion(manifest.ROCQ_VERSION))
       THEN ShDie("", os, machine, ls)
       ELSE ShDie("Installed rocq does not match requested Rocq", os, machine, ls)

ShLin ==
  \/ ShLin_EnsureOpam
  \/ ShLin_Switch
  \/ ShLin_Repo
  \/ ShLin_Packages
  \/ ShLin_Binaries
  \/ ShLin_VerifyVersion

-----------------------------------------------------------------------------
(* GUI: the Install and Doctor buttons (macOS and Linux windows) *)

\* The window after gui.Run has built it.
GuiReady ==
  [open |-> TRUE, installEnabled |-> TRUE, doctorEnabled |-> TRUE,
   releaseEnabled |-> TRUE,
   dialogs |-> <<>>,   \* the dialogs shown over the window, the last one on top
   running |-> 0,      \* goroutines inside runInstallWithOptions
   doctors |-> 0,      \* goroutines inside the Doctor handler
   errorShown |-> "",  \* the message of the error dialog shown last
   taps |-> 0]         \* taps on Install and Doctor so far

GuiStep(g) ==
  /\ gui' = g
  /\ UNCHANGED <<platform, manifest, machine, pc, cfg, locals, reports, ops, result, err,
                 prev, runs>>

\* A button of the window can be tapped: no dialog covers it.
Tappable == gui.open /\ gui.dialogs = <<>> /\ gui.taps < MaxTaps

ShowDialog(g, d) == [g EXCEPT !.dialogs = Append(@, d)]

HideDialog(g) == [g EXCEPT !.dialogs = SubSeq(@, 1, Len(@) - 1)]

TopDialog == gui.dialogs[Len(gui.dialogs)]

\* go runInstallWithOptions(...)
GoRunInstall(g) == [g EXCEPT !.running = @ + 1]

\* Variant of showError that shows the error and leaves the button as it is.
ShowErrorOnly(g, msg) == ShowDialog([g EXCEPT !.errorShown = msg], "error")

\* showError: the Install button is enabled again and an error dialog with the
\* message is shown.
ShowError(g, msg) ==
  ShowDialog([g EXCEPT !.installEnabled = TRUE, !.errorShown = msg], "error")

\* Errors installer.Run returns on both platforms.
RunErrors == {"workspace", "vscode config"}

\* macOS: the Install button's handler.
MacGui_TapInstall ==
  /\ platform = "macos"
  /\ Tappable
  /\ gui.installEnabled
  /\ \E existing \in BOOLEAN :
       LET g == [gui EXCEPT !.installEnabled = FALSE, !.taps = @ + 1] IN
       IF existing
         THEN GuiStep(ShowDialog(g, "existing"))
         ELSE GuiStep(GoRunInstall(g))

\* macOS: the callback of the Reuse / Reinstall confirmation.
MacGui_ExistingChoice ==
  /\ platform = "macos"
  /\ gui.open
  /\ gui.dialogs # <<>>
  /\ TopDialog = "existing"
  /\ \E reuse \in BOOLEAN :
       GuiStep(GoRunInstall(HideDialog(gui)))

\* Linux: the Install button's handler.
LinGui_TapInstall ==
  /\ platform = "linux"
  /\ Tappable
  /\ gui.installEnabled
  /\ \E existing \in BOOLEAN :
       LET g == [gui EXCEPT !.installEnabled = FALSE, !.releaseEnabled = FALSE,
                            !.taps = @ + 1]
       IN
       IF existing
         THEN GuiStep(ShowDialog(g, "existing"))
         ELSE GuiStep(GoRunInstall(g))

\* Linux: the Close and Continue buttons of the switch selection.
LinGui_ExistingChoice ==
  /\ platform = "linux"
  /\ gui.open
  /\ gui.dialogs # <<>>
  /\ TopDialog = "existing"
  /\ \E button \in {"Close", "Continue"} :
       IF button = "Close"
         THEN GuiStep([HideDialog(gui) EXCEPT !.installEnabled = TRUE,
                                              !.releaseEnabled = TRUE])
         ELSE GuiStep(GoRunInstall(HideDialog(gui)))

\* The Doctor button's handler, up to the start of its goroutine.
Gui_TapDoctor ==
  /\ Tappable
  /\ gui.doctorEnabled
  /\ GuiStep([gui EXCEPT !.installEnabled = FALSE, !.doctorEnabled = FALSE,
                         !.doctors = @ + 1, !.taps = @ + 1])

\* The goroutine of the Doctor handler: the report is shown and both buttons
\* are enabled.
Gui_DoctorDone ==
  /\ gui.open
  /\ gui.doctors > 0
  /\ GuiStep([ShowDialog(gui, "doctor") EXCEPT !.doctors = @ - 1,
                                               !.installEnabled = TRUE,
                                               !.doctorEnabled = TRUE])

\* installer.Run returns inside runInstallWithOptions.
Gui_RunReturns ==
  /\ gui.open
  /\ gui.running > 0
  /\ \E e \in RunErrors \cup {""}, VSCodeFound \in BOOLEAN :
       LET g == [gui EXCEPT !.running = @ - 1] IN
       /\ (e # "" => ~VSCodeFound)
       /\ gui' = IF e # "" THEN ShowError(g, e)
                 ELSE IF ~VSCodeFound THEN ShowDialog(g, "vscode")
                 ELSE ShowDialog(g, "success")
       /\ err' = e
       /\ UNCHANGED <<platform, manifest, machine, pc, cfg, locals, reports, ops, result,
                      prev, runs>>

\* The user closes the dialog on top (Close, OK, Download VSCode).
Gui_DismissDialog ==
  /\ gui.open
  /\ gui.dialogs # <<>>
  /\ TopDialog # "existing"
  /\ GuiStep(HideDialog(gui))

-----------------------------------------------------------------------------
(* Specification of the pipelines *)

GoPlatforms == {"macos", "windows", "linux"}

Platforms == GoPlatforms \cup {"sh_macos"}

Machines ==
  [appsWritable : BOOLEAN, dest : {"none", "old"}, mounted : {FALSE}, tmp : {"none"},
   workspace : {FALSE}, opamInit : BOOLEAN]

InitRun ==
  /\ platform \in Platforms
  /\ manifest \in [SHA256 : ExpectedHashes]
  /\ machine \in Machines
  /\ platform \in {"windows", "linux"} => machine.appsWritable
  /\ platform # "linux" => ~machine.opamInit
  /\ machine.dest # "none" => (platform = "linux" => machine.opamInit)
  /\ pc = "idle"
  /\ cfg = NoCfg
  /\ locals = NoLocals
  /\ reports = <<>>
  /\ ops = <<>>
  /\ result = NilResult
  /\ err = ""
  /\ prev = NoPrev
  /\ runs = 0
  /\ gui = NoGui

NextRun ==
  \/ MacRun
  \/ WinRun
  \/ LinRun
  \/ ShMac

SpecRun == InitRun /\ [][NextRun]_vars

-----------------------------------------------------------------------------
(* Specification of the shell installer's Linux strategy *)

ShLinMachines ==
  [opam : {"absent", "v1", "v2"}, opamDir : BOOLEAN, dest : {"none", "old"},
   rocq : {NoBinary}, vsrocqtop : {FALSE}]

InitShLin ==
  /\ platform = "sh_linux"
  /\ manifest \in [SHA256 : {<<>>}, ROCQ_VERSION : RequestedVersions]
  /\ machine \in ShLinMachines
  /\ (machine.opam = "absent" => ~machine.opamDir /\ machine.dest = "none")
  /\ (machine.dest # "none" => machine.opamDir)
  /\ pc = "sh_opam"
  /\ cfg \in [RECREATE_SWITCH : {0, 1}, SKIP_VSCODE : {0, 1}]
  /\ locals = [rocq_mm |-> <<>>, got |-> <<>>, vsrocqtopPath |-> "",
               destBefore |-> machine.dest]
  /\ reports = <<>>
  /\ ops = <<>>
  /\ result = NilResult
  /\ err = ""
  /\ prev = NoPrev
  /\ runs = 0
  /\ gui = NoGui

NextShLin == ShLin

SpecShLin == InitShLin /\ [][NextShLin]_vars

-----------------------------------------------------------------------------
(* Download, read by read *)

\* The throttle of the loop: 200 ms have passed since the last report.
\* lastReport starts one second in the past, so the first chunk always passes.
ReportDue(reported, elapsed) == ~reported \/ elapsed

\* Variant of the report after the loop that is never made.
FinalReportOmitted(calls, downloaded, total) == calls

\* The report after the loop.
FinalReport(calls, downloaded, total) ==
  Append(calls, [downloaded |-> downloaded, total |-> total])

DownloadReturn(e, m, ls) ==
  /\ pc' = "done"
  /\ err' = e
  /\ machine' = m
  /\ locals' = ls
  /\ UNCHANGED <<platform, manifest, cfg, reports, ops, result, prev, runs, gui>>

\* The request, the destination directory and the destination file.
Download_Start ==
  /\ platform = "download"
  /\ pc = "dl_start"
  /\ \E outcome \in {"create request", "HTTP GET", "HTTP status", "create temp dir",
                     "create file", "ok"} :
       IF outcome # "ok"
       THEN DownloadReturn(outcome, machine, locals)
       ELSE /\ pc' = "dl_loop"
            /\ machine' = [machine EXCEPT !.tmp = "partial"]
            /\ UNCHANGED <<platform, manifest, cfg, locals, reports, ops, result, err,
                           prev, runs, gui>>

\* One iteration of the loop: a Read of n bytes with its error, the write, the
\* throttled report, and on EOF the report after the loop and the return.
Download_Read ==
  /\ platform = "download"
  /\ pc = "dl_loop"
  /\ \E n \in 0..(locals.size - locals.downloaded), readErr \in {"nil", "EOF", "err"},
        writeOk \in BOOLEAN, elapsed \in BOOLEAN :
       LET downloaded == locals.downloaded + n
           due == n > 0 /\ ReportDue(locals.reported, elapsed)
           calls == IF due
                    THEN Append(locals.calls,
                                [downloaded |-> downloaded, total |-> locals.total])
                    ELSE locals.calls
           ls == [locals EXCEPT !.downloaded = downloaded, !.calls = calls,
                                !.reported = locals.reported \/ due,
                                !.lastReported = IF n > 0 THEN due ELSE locals.lastReported]
       IN
       /\ (readErr = "EOF" => downloaded = locals.size)
       /\ (n = 0 => writeOk)
       /\ (~(n > 0 /\ locals.reported) => ~elapsed)
       /\ IF n > 0 /\ ~writeOk
            THEN /\ readErr = "nil" /\ ~elapsed
                 /\ DownloadReturn("write file", machine, locals)
          ELSE IF readErr = "EOF"
            THEN DownloadReturn("", [machine EXCEPT !.tmp = "file"],
                   [ls EXCEPT !.calls = FinalReport(calls, downloaded, locals.total)])
          ELSE IF readErr = "err"
            THEN DownloadReturn("read body", machine, ls)
          ELSE /\ pc' = "dl_loop"
               /\ locals' = ls
               /\ UNCHANGED <<platform, manifest, machine, cfg, reports, ops, result, err,
                              prev, runs, gui>>

\* The body has locals.size bytes; Content-Length gives them or is unknown.
InitDownload ==
  /\ platform = "download"
  /\ manifest = [SHA256 |-> <<>>]
  /\ machine = [tmp |-> "none"]
  /\ pc = "dl_start"
  /\ cfg = NoCfg
  /\ \E size \in 0..MaxBytes, known \in BOOLEAN :
       locals = [size |-> size, total |-> IF known THEN size ELSE -1, downloaded |-> 0,
                 calls |-> <<>>, reported |-> FALSE, lastReported |-> FALSE]
  /\ reports = <<>>
  /\ ops = <<>>
  /\ result = NilResult
  /\ err = ""
  /\ prev = NoPrev
  /\ runs = 0
  /\ gui = NoGui

NextDownload ==
  \/ Download_Start
  \/ Download_Read

SpecDownload == InitDownload /\ [][NextDownload]_vars

-----------------------------------------------------------------------------
(* Detection of existing installations: FindExistingInstallations *)

\* Directory names as the discovery sources spell them.  C:\P stands for a
\* directory matching C:\Rocq-platform~*, C:\R for the common path C:\Rocq.
DirP == <<"C", ":", "\\", "P">>

DirPLower == <<"c", ":", "\\", "p">>

DirPSlash == <<"C", ":", "\\", "P", "\\">>

DirR == <<"C", ":", "\\", "R">>

DirRSlash == <<"C", ":", "\\", "R", "\\">>

\* Bundles as the macOS sources spell them: /A/R.app stands for a bundle in
\* /Applications, /H/C.app for one in ~/Applications.
AppA == <<"/", "A", "/", "R", ".", "a", "p", "p">>

AppH == <<"/", "H", "/", "C", ".", "a", "p", "p">>

BrewDirs == {<<"/", "o", "/", "b">>, <<"/", "u", "/", "b">>}

ToLower(s) == [i \in 1..Len(s) |-> ToLowerChar(s[i])]

\* The directory a Windows path denotes: the file system ignores case and a
\* trailing separator.
RootOf(dir) ==
  LET clean == IF Len(dir) > 3 /\ dir[Len(dir)] = "\\" THEN SubSeq(dir, 1, Len(dir) - 1)
               ELSE dir
  IN ToLower(clean)

\* The key of the seen map: strings.ToLower(dir) on Windows, the path itself on macOS.
SeenKey(p, dir) == IF p = "windows" THEN ToLower(dir) ELSE dir

NoneFound == [found |-> <<>>, seen |-> {}]

addIfNew(p, acc, dir) ==
  IF SeenKey(p, dir) \in acc.seen THEN acc
  ELSE [found |-> Append(acc.found, dir), seen |-> acc.seen \cup {SeenKey(p, dir)}]

\* addIfNew over the directories of one source, in order; on Windows only
\* those with hasRocqInstallation.
RECURSIVE AddAll(_, _, _, _)
AddAll(p, acc, dirs, installed) ==
  IF dirs = <<>> THEN acc
  ELSE AddAll(p,
              IF p = "windows" /\ RootOf(Head(dirs)) \notin installed
              THEN acc ELSE addIfNew(p, acc, Head(dirs)),
              Tail(dirs), installed)

\* Windows: glob, registry, common paths, then PATH (looked up as rocq and as
\* rocq.exe, so a hit is offered twice).
WinFindExistingInstallations(glob, registry, lookPath, installed) ==
  LET a1 == AddAll("windows", NoneFound, glob, installed)
      a2 == AddAll("windows", a1, registry, installed)
      a3 == AddAll("windows", a2, <<DirR>>, installed)
      a4 == AddAll("windows", a3, lookPath \o lookPath, installed)
  IN a4.found

\* macOS: the two glob patterns in each search directory, the bundle above the
\* rocq of PATH, then the Homebrew directories.
MacFindExistingInstallations(glob, lookPath, brew) ==
  LET a1 == AddAll("macos", NoneFound, glob, {})
      a2 == AddAll("macos", a1, lookPath, {})
      a3 == AddAll("macos", a2, brew, {})
  IN a3.found

\* Sequences over S of length at most n.
SeqsUpTo(S, n) == UNION {[1..k -> S] : k \in 0..n}

Detect_Windows ==
  /\ platform = "windows"
  /\ pc = "detect"
  /\ pc' = "done"
  /\ locals' = [locals EXCEPT !.found =
                  WinFindExistingInstallations(locals.glob, locals.registry,
                                               locals.lookPath, machine.installed)]
  /\ UNCHANGED <<platform, manifest, machine, cfg, reports, ops, result, err, prev,
                 runs, gui>>

Detect_MacOS ==
  /\ platform = "macos"
  /\ pc = "detect"
  /\ pc' = "done"
  /\ locals' = [locals EXCEPT !.found =
                  MacFindExistingInstallations(locals.glob, locals.lookPath, locals.brew)]
  /\ UNCHANGED <<platform, manifest, machine, cfg, reports, ops, result, err, prev,
                 runs, gui>>

\* What the discovery sources report.  A glob reports names as they are on
\* disk; the registry holds whatever the installer wrote as InstallLocation;
\* a bundle whose name matches both glob patterns is reported by both.
InitDetect ==
  /\ platform \in {"windows", "macos"}
  /\ manifest = [SHA256 |-> <<>>]
  /\ pc = "detect"
  /\ cfg = NoCfg
  /\ \/ /\ platform = "windows"
        /\ machine \in [installed : SUBSET {RootOf(DirP), RootOf(DirR)}]
        /\ \E glob \in SeqsUpTo({DirP}, 1),
              registry \in SeqsUpTo({DirP, DirPLower, DirPSlash, DirR, DirRSlash},
                                    MaxDetected),
              lookPath \in SeqsUpTo({DirP, DirPLower, DirR}, 1) :
             /\ \A i \in 1..Len(glob) : RootOf(glob[i]) \in machine.installed
             /\ \A i \in 1..Len(lookPath) : RootOf(lookPath[i]) \in machine.installed
             /\ locals = [glob |-> glob, registry |-> registry, lookPath |-> lookPath,
                          brew |-> <<>>, found |-> <<>>]
     \/ /\ platform = "macos"
        /\ machine = [installed |-> {}]
        /\ \E glob \in SeqsUpTo({AppA, AppH}, MaxDetected + 1),
              lookPath \in SeqsUpTo({AppA, AppH}, 1),
              brew \in SeqsUpTo(BrewDirs, 2) :
             /\ \A i \in 1..Len(glob) : \A j \in (i + 1)..Len(glob) :
                  glob[i] = AppH => glob[j] = AppH
             /\ \A i \in 1..Len(brew) : \A j \in (i + 1)..Len(brew) : brew[i] # brew[j]
             /\ locals = [glob |-> glob, registry |-> <<>>, lookPath |-> lookPath,
                          brew |-> brew, found |-> <<>>]
  /\ reports = <<>>
  /\ ops = <<>>
  /\ result = NilResult
  /\ err = ""
  /\ prev = NoPrev
  /\ runs = 0
  /\ gui = NoGui

NextDetect ==
  \/ Detect_Windows
  \/ Detect_MacOS

SpecDetect == InitDetect /\ [][NextDetect]_vars

-----------------------------------------------------------------------------
(* Checksum verification as a function of the file and the expected hash *)

\* Digests of files (lower-case hex) and expected hashes as a manifest may
\* spell them, shortened to MaxHash characters.
HexDigests == [1..MaxHash -> {"a", "b"}]

ManifestHashes == SeqsUpTo({"a", "B", " "}, MaxHash)

\* VerifySHA256(path, expected) of the macOS installer.
Verify_Go ==
  /\ platform = "macos"
  /\ pc = "verify"
  /\ pc' = "done"
  /\ locals' = [locals EXCEPT !.ok =
                  VerifySHA256(locals.opened, locals.got, manifest.SHA256)]
  /\ UNCHANGED <<platform, manifest, machine, cfg, reports, ops, result, err, prev,
                 runs, gui>>

\* sha256_check "$file" "$expected": a file shasum cannot read ends the script.
Verify_Shell ==
  /\ platform = "sh_macos"
  /\ pc = "verify"
  /\ pc' = "done"
  /\ locals' = [locals EXCEPT !.ok =
                  /\ ShSha256Check(locals.got, manifest.SHA256)
                  /\ (manifest.SHA256 # <<>> => locals.opened)]
  /\ UNCHANGED <<platform, manifest, machine, cfg, reports, ops, result, err, prev,
                 runs, gui>>

InitVerify ==
  /\ platform \in {"macos", "sh_macos"}
  /\ manifest \in [SHA256 : ManifestHashes]
  /\ machine = [tmp |-> "file"]
  /\ pc = "verify"
  /\ cfg = NoCfg
  /\ locals \in [opened : BOOLEAN, got : HexDigests, ok : {FALSE}]
  /\ reports = <<>>
  /\ ops = <<>>
  /\ result = NilResult
  /\ err = ""
  /\ prev = NoPrev
  /\ runs = 0
  /\ gui = NoGui

NextVerify ==
  \/ Verify_Go
  \/ Verify_Shell

SpecVerify == InitVerify /\ [][NextVerify]_vars

-----------------------------------------------------------------------------
(* Locating the language-server binary *)

\* strconv.Atoi on decimal digits; -1 stands for its error.
RECURSIVE Atoi(_)
Atoi(s) ==
  IF s = <<>> \/ \E i \in 1..Len(s) : \A d \in 0..9 : DigitChar(d) # s[i] THEN -1
  ELSE LET last == CHOOSE d \in 0..9 : DigitChar(d) = s[Len(s)] IN
       IF Len(s) = 1 THEN last ELSE Atoi(SubSeq(s, 1, Len(s) - 1)) * 10 + last

\* strings.SplitN(version, ".", 2)[0]
BeforeFirstDot(s) ==
  LET dots == {i \in 1..Len(s) : s[i] = "."} IN
  IF dots = {} THEN s
  ELSE SubSeq(s, 1, (CHOOSE i \in dots : \A j \in dots : i <= j) - 1)

\* IsCoq: the major version parses and is below 9.
IsCoq(version) ==
  LET major == Atoi(BeforeFirstDot(version)) IN major # -1 /\ major < 9

\* binName of FindLanguageServerTop.
BinName(version) == IF IsCoq(version) THEN "vscoqtop" ELSE "vsrocqtop"

BinNames == {"vsrocqtop", "vscoqtop"}

\* Where a binary can be: directly in <root>/bin, somewhere under the install
\* root, on PATH, at a fixed location, in a bundle of the application
\* directories.
LocatorSources == {"root_direct", "root_walk", "path", "known", "scan"}

\* The sources each locator consults, in the order of its code.
SearchOrder(fn) ==
  CASE fn = "mac.FindLanguageServerTop" -> <<"root_walk", "path", "known", "scan">>
    [] fn = "win.FindLanguageServerTop" -> <<"root_direct", "root_walk">>
    [] fn = "win.FindVsrocqtop" -> <<"root_direct", "root_walk">>
    [] fn = "find_vsrocqtop_macos" -> <<"path", "known", "scan">>

\* The name each locator searches for.
SearchedName(fn, version) ==
  IF fn \in {"mac.FindLanguageServerTop", "win.FindLanguageServerTop"}
  THEN BinName(version)
  ELSE "vsrocqtop"

\* Variant of the search that goes through every source and keeps the last hit.
RECURSIVE LastHit(_, _, _, _)
LastHit(order, fs, name, consulted) ==
  IF order = <<>> THEN [consulted |-> consulted, path |-> <<>>]
  ELSE LET rest == LastHit(Tail(order), fs, name, Append(consulted, Head(order))) IN
       IF rest.path = <<>> /\ name \in fs[Head(order)]
       THEN [rest EXCEPT !.path = <<Head(order), name>>]
       ELSE rest

\* The search: each source in turn, returning at the first one that has the
\* binary; an empty path stands for the not-found error.
RECURSIVE FirstHit(_, _, _, _)
FirstHit(order, fs, name, consulted) ==
  IF order = <<>> THEN [consulted |-> consulted, path |-> <<>>]
  ELSE IF name \in fs[Head(order)]
  THEN [consulted |-> Append(consulted, Head(order)), path |-> <<Head(order), name>>]
  ELSE FirstHit(Tail(order), fs, name, Append(consulted, Head(order)))

Locate(fn) ==
  /\ pc = "locate"
  /\ locals.fn = fn
  /\ LET name == SearchedName(fn, FormatVersion(locals.version))
         r == FirstHit(SearchOrder(fn), locals.fs, name, <<>>)
     IN
     /\ locals' = [locals EXCEPT !.searched = {name}, !.consulted = r.consulted,
                                 !.path = r.path]
     /\ err' = IF r.path = <<>> THEN "not found" ELSE ""
  /\ pc' = "done"
  /\ UNCHANGED <<platform, manifest, machine, cfg, reports, ops, result, prev, runs, gui>>

\* FindLanguageServerTop of the macOS installer.
Locate_MacOS == platform = "macos" /\ Locate("mac.FindLanguageServerTop")

\* FindLanguageServerTop of the Windows installer.
Locate_Windows == platform = "windows" /\ Locate("win.FindLanguageServerTop")

\* FindVsrocqtop, which step 4 of the Windows Run calls.
Locate_WinRun == platform = "windows" /\ Locate("win.FindVsrocqtop")

\* find_vsrocqtop_macos of the shell installer.
Locate_Shell == platform = "sh_macos" /\ Locate("find_vsrocqtop_macos")

LocatorVersions == {<<8, 20, 1>>, <<9, 0, 0>>, <<10, 0, 0>>}

\* A binary directly in <root>/bin is also met by a walk of the root.
InitLocate ==
  /\ platform \in {"macos", "windows", "sh_macos"}
  /\ manifest = [SHA256 |-> <<>>]
  /\ machine = [tmp |-> "none"]
  /\ pc = "locate"
  /\ cfg = NoCfg
  /\ \E fn \in {"mac.FindLanguageServerTop", "win.FindLanguageServerTop",
                "win.FindVsrocqtop", "find_vsrocqtop_macos"},
        version \in LocatorVersions, fs \in [LocatorSources -> SUBSET BinNames] :
       /\ fn = "mac.FindLanguageServerTop" <=> platform = "macos"
       /\ fn = "find_vsrocqtop_macos" <=> platform = "sh_macos"
       /\ fs["root_direct"] \subseteq fs["root_walk"]
       /\ locals = [fn |-> fn, version |-> version, fs |-> fs, searched |-> {},
                    consulted |-> <<>>, path |-> <<>>]
  /\ reports = <<>>
  /\ ops = <<>>
  /\ result = NilResult
  /\ err = ""
  /\ prev = NoPrev
  /\ runs = 0
  /\ gui = NoGui

NextLocate ==
  \/ Locate_MacOS
  \/ Locate_Windows
  \/ Locate_WinRun
  \/ Locate_Shell

SpecLocate == InitLocate /\ [][NextLocate]_vars

-----------------------------------------------------------------------------
(* The name of the switch, as the shell installer and the GUI compute it *)

\* The components of a version joined by dots.
RECURSIVE JoinDots(_)
JoinDots(comps) ==
  IF Len(comps) = 1 THEN Itoa(comps[1])
  ELSE Itoa(comps[1]) \o <<".">> \o JoinDots(Tail(comps))

\* rocqShort of SwitchName: parts[0] + "." + parts[1] of
\* strings.SplitN(rocqVersion, ".", 3) when there are at least two parts.
RocqShort(rocqVersion) ==
  LET dots == {i \in 1..Len(rocqVersion) : rocqVersion[i] = "."} IN
  IF Cardinality(dots) < 2 THEN rocqVersion
  ELSE LET first == CHOOSE i \in dots : \A j \in dots : i <= j
           second == CHOOSE i \in dots \ {first} : \A j \in dots \ {first} : i <= j
       IN SubSeq(rocqVersion, 1, second - 1)

\* SwitchName of the Linux installer.
SwitchName(rocqVersion, platformRelease) ==
  <<"C", "P", ".">> \o platformRelease \o <<"~">> \o RocqShort(rocqVersion)

\* The switch name of install_rocq_linux_opam.
ShSwitchName(ROCQ_VERSION, PLATFORM_RELEASE, OPAM_SNAPSHOT) ==
  LET rocq_mm == StripDotSuffix(ROCQ_VERSION)
      switch == <<"C", "P", ".">> \o PLATFORM_RELEASE \o <<"~">> \o rocq_mm
  IN IF OPAM_SNAPSHOT # <<>> THEN switch \o <<"~">> \o OPAM_SNAPSHOT ELSE switch

\* The manifest values: platform_release 2025.08.1 or 2025.09.0, opam_snapshot
\* absent or 2025.08.
PlatformReleases ==
  {<<"2", "0", "2", "5", ".", "0", "8", ".", "1">>,
   <<"2", "0", "2", "5", ".", "0", "9", ".", "0">>}

OpamSnapshots == {<<>>, <<"2", "0", "2", "5", ".", "0", "8">>}

\* Versions of one to MaxComponents components.
VersionComponents == UNION {[1..k -> {0, 1, 9}] : k \in 1..MaxComponents}

\* install_rocq_linux_opam computes the name.
SwitchName_Shell ==
  /\ pc = "naming"
  /\ locals.sh = <<>>
  /\ locals' = [locals EXCEPT !.sh =
                  ShSwitchName(manifest.rocq_version, manifest.platform_release,
                               manifest.opam_snapshot)]
  /\ UNCHANGED <<platform, manifest, machine, pc, cfg, reports, ops, result, err, prev,
                 runs, gui>>

\* The Linux GUI and Run compute the name; the manifest they read has no
\* snapshot field.
SwitchName_Go ==
  /\ pc = "naming"
  /\ locals.go = <<>>
  /\ locals' = [locals EXCEPT !.go =
                  SwitchName(manifest.rocq_version, manifest.platform_release)]
  /\ UNCHANGED <<platform, manifest, machine, pc, cfg, reports, ops, result, err, prev,
                 runs, gui>>

InitSwitchName ==
  /\ platform = "linux"
  /\ \E comps \in VersionComponents, rel \in PlatformReleases, snap \in OpamSnapshots :
       manifest = [SHA256 |-> <<>>, components |-> comps, rocq_version |-> JoinDots(comps),
                   platform_release |-> rel, opam_snapshot |-> snap]
  /\ machine = [tmp |-> "none"]
  /\ pc = "naming"
  /\ cfg = NoCfg
  /\ locals = [sh |-> <<>>, go |-> <<>>]
  /\ reports = <<>>
  /\ ops = <<>>
  /\ result = NilResult
  /\ err = ""
  /\ prev = NoPrev
  /\ runs = 0
  /\ gui = NoGui

NextSwitchName ==
  \/ SwitchName_Shell
  \/ SwitchName_Go

SpecSwitchName == InitSwitchName /\ [][NextSwitchName]_vars

-----------------------------------------------------------------------------
(* Step 5 of the Linux Run, line by line: installPackages *)

PkgReturn(e, rs, ls) ==
  /\ pc' = "done"
  /\ err' = e
  /\ reports' = rs
  /\ locals' = ls
  /\ UNCHANGED <<platform, manifest, machine, cfg, ops, result, prev, runs, gui>>

\* Run reports step 5 at 0.0 and installPackages starts opam.
Pkg_Start ==
  /\ platform = "linux"
  /\ pc = "pkg_start"
  /\ LET rs0 == OnStep(reports, 5,
                  "Installing Rocq packages (this may take a while)...", Frac0)
     IN
     \E outcome \in {"pipeErr", "startErr", "ok"} :
       IF outcome # "ok"
       THEN PkgReturn("install packages", rs0, locals)
       ELSE /\ pc' = "pkg_scan"
            /\ reports' = rs0
            /\ locals' = [locals EXCEPT !.running = TRUE]
            /\ UNCHANGED <<platform, manifest, machine, cfg, ops, result, err, prev,
                           runs, gui>>

\* scanner.Scan() returns a line: it is counted and a fraction is reported.
Pkg_Line ==
  /\ platform = "linux"
  /\ pc = "pkg_scan"
  /\ locals.lineCount < MaxOutputLines
  /\ LET n == locals.lineCount + 1 IN
     /\ locals' = [locals EXCEPT !.lineCount = n]
     /\ reports' = OnStep(reports, 5, "Installing Rocq packages...", LineFraction(n))
  /\ UNCHANGED <<platform, manifest, machine, pc, cfg, ops, result, err, prev, runs, gui>>

\* The output ends; cmd.Wait returns when the process has exited, and Run
\* reports 1.0 when it exited successfully.
Pkg_Wait ==
  /\ platform = "linux"
  /\ pc = "pkg_scan"
  /\ \E exitOk \in BOOLEAN :
       LET ls == [locals EXCEPT !.running = FALSE,
                                !.exit = IF exitOk THEN "ok" ELSE "failed"]
       IN
       IF exitOk
       THEN PkgReturn("", OnStep(reports, 5, "Rocq packages installed.", Frac1), ls)
       ELSE PkgReturn("install packages", reports, ls)

InitPackages ==
  /\ platform = "linux"
  /\ manifest = [SHA256 |-> <<>>]
  /\ machine = [tmp |-> "none"]
  /\ pc = "pkg_start"
  /\ cfg = NoCfg
  /\ locals = [lineCount |-> 0, running |-> FALSE, exit |-> ""]
  /\ reports = <<>>
  /\ ops = <<>>
  /\ result = NilResult
  /\ err = ""
  /\ prev = NoPrev
  /\ runs = 0
  /\ gui = NoGui

NextPackages ==
  \/ Pkg_Start
  \/ Pkg_Line
  \/ Pkg_Wait

SpecPackages == InitPackages /\ [][NextPackages]_vars

-----------------------------------------------------------------------------
(* Specification of the source-package-manager strategy: the Linux Run and *)
(* the shell installer's Linux strategy                                    *)

InitOpam ==
  \/ InitRun /\ platform = "linux"
  \/ InitShLin

NextOpam ==
  \/ LinRun
  \/ ShLin

SpecOpam == InitOpam /\ [][NextOpam]_vars

-----------------------------------------------------------------------------
(* Specification of the GUI *)

InitGui ==
  /\ platform \in {"macos", "linux"}
  /\ manifest = [SHA256 |-> <<>>]
  /\ machine = [appsWritable |-> TRUE, dest |-> "none", mounted |-> FALSE, tmp |-> "none",
                workspace |-> FALSE, opamInit |-> FALSE]
  /\ pc = "idle"
  /\ cfg = NoCfg
  /\ locals = NoLocals
  /\ reports = <<>>
  /\ ops = <<>>
  /\ result = NilResult
  /\ err = ""
  /\ prev = NoPrev
  /\ runs = 0
  /\ gui = GuiReady

NextGui ==
  \/ MacGui_TapInstall
  \/ MacGui_ExistingChoice
  \/ LinGui_TapInstall
  \/ LinGui_ExistingChoice
  \/ Gui_TapDoctor
  \/ Gui_DoctorDone
  \/ Gui_RunReturns
  \/ Gui_DismissDialog

SpecGui == InitGui /\ [][NextGui]_vars

-----------------------------------------------------------------------------
(* Properties of the pipelines *)

OpSet(os) == {os[i] : i \in 1..Len(os)}

StepsOf(rs) == {rs[i].step : i \in 1..Len(rs)}

NonDecreasing(rs) ==
  \A i \in 1..Len(rs) : \A j \in i..Len(rs) : rs[i].step <= rs[j].step

UnmountOps == {"hdiutil detach", "hdiutil detach -force"}

\* The operations of steps 1 to 3 whose failure is the step's error.
EarlyOps ==
  {"download", "VerifySHA256", "hdiutil attach", "FindAppInDMG", "InstallApp",
   "RunInnoSetup", "ensureOpam", "opam init", "opam switch create"}

\* The operations of the install strategies of macOS and Windows.
InstallOps ==
  {"hdiutil attach", "FindAppInDMG", "InstallApp", "RemoveAll", "rsync", "cp -R",
   "RunInnoSetup"}

SkippedLabels ==
  {"Rocq Platform already installed, skipping download.",
   "Skipped (already installed).",
   "Opam already available, skipping.",
   "Skipped (reusing switch)."}

\* Run has passed its entry (the home directory was resolved).
Entered == pc \notin {"idle"} /\ err # "get home dir"

\* C1: in the macOS, Windows and Linux Run, the step indices handed to the
\* step callback lie in 1..7 and never decrease, no operation of a run is
\* executed a second time, and when a step fails it is the last step reported.
C1_StepsNonDecreasing ==
  platform \in GoPlatforms =>
    /\ \A i \in 1..Len(reports) : reports[i].step \in 1..7
    /\ NonDecreasing(reports)
    /\ \A i \in 1..Len(ops) : \A j \in 1..Len(ops) : ops[i].op = ops[j].op => i = j
    /\ (pc = "done" /\ err # "" /\ reports # <<>>) =>
         /\ locals.failedStep \in 1..7
         /\ reports[Len(reports)].step = locals.failedStep

C1_Witness ==
  /\ platform = "windows"
  /\ pc = "done"
  /\ err = "workspace"
  /\ Len(reports) >= 10

\* The run takes the reuse branch.
Reused ==
  CASE platform = "macos" -> cfg.SkipInstall /\ cfg.ExistingApp # ""
    [] platform = "windows" -> cfg.SkipInstall \/ locals.destBefore # "none"
    [] platform = "linux" -> cfg.SkipInstall
    [] OTHER -> FALSE

\* C2: a run that reuses an installation still reports steps 1, 2 and 3, each
\* with a skipped label and fraction 1.0, and every run that returns success
\* has reported every index 1..7, in increasing order.
C2_ReuseReportsAllSteps ==
  /\ (Entered /\ Reused) =>
       /\ Len(reports) >= 3
       /\ \A k \in 1..3 :
            /\ reports[k].step = k
            /\ reports[k].label \in SkippedLabels
            /\ IsOne(reports[k].fraction)
  /\ (platform \in GoPlatforms /\ pc = "done" /\ err = "") =>
       /\ StepsOf(reports) = 1..7
       /\ NonDecreasing(reports)

C2_Witness ==
  /\ platform = "windows"
  /\ pc = "done"
  /\ err = ""
  /\ Reused
  /\ result.VSCodeFound

\* C3 (amended): an error in step 1, 2 or 3 aborts Run: it returns an error
\* and a nil Result, no later step is reported and nothing but the unmount of
\* the image follows the failed operation.  A failure to locate the language
\* server at step 4 of the macOS and Windows Run does not abort: step 4 is
\* reported complete and the run goes on to step 5.
C3_EarlyErrorsAbort ==
  platform \in GoPlatforms =>
    /\ \A i \in 1..Len(ops) :
         (ops[i].op \in EarlyOps /\ ~ops[i].ok) =>
           /\ pc = "done"
           /\ err # ""
           /\ result = NilResult
           /\ locals.failedStep \in 1..3
           /\ \A k \in 1..Len(reports) : reports[k].step <= locals.failedStep
           /\ \A j \in (i + 1)..Len(ops) : ops[j].op \in UnmountOps
    /\ (pc = "done" /\ err # "") => result = NilResult
    /\ (platform # "linux" /\ Op("FindVsrocqtop", FALSE) \in OpSet(ops)) =>
         /\ \E k \in 1..Len(reports) :
              reports[k].step = 4 /\ IsOne(reports[k].fraction)
         /\ pc \in {"step5", "step6", "step7", "done"}
         /\ (pc # "step5" => 5 \in StepsOf(reports))
         /\ locals.failedStep # 4

C3_Witness ==
  /\ platform = "macos"
  /\ pc = "done"
  /\ Op("InstallApp", FALSE) \in OpSet(ops)
  /\ Op("hdiutil detach", TRUE) \in OpSet(ops)

\* C3 as stated: any error in steps 1 to 4 (acquire, verify, install, locate
\* the language server) aborts Run with an error and a nil Result.
C3_AnyErrorInSteps1To4Aborts ==
  platform \in {"macos", "windows"} =>
    \A i \in 1..Len(ops) :
      (ops[i].op \in EarlyOps \cup {"FindVsrocqtop"} /\ ~ops[i].ok) =>
        /\ pc = "done"
        /\ err # ""
        /\ result = NilResult

\* The artifact was read and its digest is not the expected one.
ChecksumMismatch ==
  /\ locals.digest.read
  /\ \/ ~locals.digest.opened
     \/ ~EqualFold(locals.digest.got, TrimSpace(manifest.SHA256))

\* C4: when the checksum of the artifact does not verify, the macOS and
\* Windows Run abort at step 2 with the checksum error: the install strategy
\* is not invoked and no step from 3 to 7 is reported.
C4_ChecksumFailureAborts ==
  (platform \in {"macos", "windows"} /\ ChecksumMismatch) =>
    /\ pc = "done"
    /\ err = "checksum"
    /\ result = NilResult
    /\ locals.failedStep = 2
    /\ OpNames(ops) \cap InstallOps = {}
    /\ \A k \in 1..Len(reports) : reports[k].step <= 2

C4_Witness ==
  /\ platform = "macos"
  /\ pc = "done"
  /\ err = "checksum"
  /\ locals.digest.opened
  /\ Op("download", TRUE) \in OpSet(ops)

LastReports(n) == SubSeq(reports, Len(reports) - n + 1, Len(reports))

\* C5 (amended): when the editor is not found, Run returns success with
\* VSCodeFound false and writes no editor configuration.  In the macOS and
\* Windows Run this happens at step 5: steps 6 and 7 are reported skipped at
\* 1.0 and no workspace is created.  In the Linux Run the editor is looked up
\* at step 7, after step 6 has created the workspace: step 7 is reported
\* "VSCode not found." at 1.0.
C5_EditorMissing ==
  (platform \in GoPlatforms /\ Op("FindCode", FALSE) \in OpSet(ops)) =>
    /\ pc = "done"
    /\ err = ""
    /\ ~result.isNil
    /\ ~result.VSCodeFound
    /\ OpNames(ops) \cap {"InstallExtension", "WriteVSCodeSettings", "OpenWorkspace"} = {}
    /\ platform \in {"macos", "windows"} =>
         /\ "workspace.Create" \notin OpNames(ops)
         /\ Len(reports) >= 3
         /\ LastReports(3) =
              << [step |-> 5, label |-> "VSCode not found.", fraction |-> Frac1],
                 [step |-> 6, label |-> "Skipped (VSCode not found).", fraction |-> Frac1],
                 [step |-> 7, label |-> "Skipped (VSCode not found).", fraction |-> Frac1] >>
    /\ platform = "linux" =>
         /\ Op("workspace.Create", TRUE) \in OpSet(ops)
         /\ machine.workspace
         /\ [step |-> 6, label |-> "Workspace created.", fraction |-> Frac1]
              \in OpSet(reports)
         /\ LastReports(1) =
              << [step |-> 7, label |-> "VSCode not found.", fraction |-> Frac1] >>

C5_Witness ==
  /\ platform = "macos"
  /\ pc = "done"
  /\ Op("FindCode", FALSE) \in OpSet(ops)
  /\ Op("InstallApp", TRUE) \in OpSet(ops)

\* C5 as stated: when the editor is not found, steps 6 and 7 are reported as
\* skipped with fraction 1.0, no workspace is created and no editor
\* configuration is written, and Run returns success with VSCodeFound false.
C5_EditorMissingSkipsWorkspace ==
  (platform \in GoPlatforms /\ Op("FindCode", FALSE) \in OpSet(ops)) =>
    /\ pc = "done"
    /\ err = ""
    /\ ~result.VSCodeFound
    /\ OpNames(ops) \cap {"workspace.Create", "WriteVSCodeSettings"} = {}
    /\ \A n \in {6, 7} :
         \E k \in 1..Len(reports) :
           /\ reports[k].step = n
           /\ reports[k].label = "Skipped (VSCode not found)."
           /\ IsOne(reports[k].fraction)

\* The last two finished runs both invoked the install strategy of a
\* disk-image or elevated-installer platform, without force, both succeeded,
\* and the destination was present when the second one started.
TwoUnforcedRuns ==
  /\ platform \in {"macos", "windows", "sh_macos"}
  /\ ~prev.older.none /\ ~prev.last.none
  /\ ~prev.older.skip /\ ~prev.last.skip
  /\ ~prev.older.force /\ ~prev.last.force
  /\ prev.older.err = "" /\ prev.last.err = ""
  /\ prev.last.destBefore # "none"

\* C7 as stated: running the install strategy twice with the same manifest,
\* the destination of the first run still present and no force flag, yields
\* the same installed location and the second run makes no network transfer.
C7_SecondRunNoTransfer ==
  TwoUnforcedRuns =>
    /\ prev.last.location = prev.older.location
    /\ prev.last.net = 0

\* C8 as stated: in every run where the disk image was mounted, an unmount is
\* attempted before step 3 ends, whether the search and copy succeeded or
\* failed; a failed unmount is retried once with a forced detach, and a
\* failure of that retry does not fail the run.
C8_UnmountAlwaysAttempted ==
  (platform \in {"macos", "sh_macos"} /\ Op("hdiutil attach", TRUE) \in OpSet(ops)) =>
    /\ "hdiutil detach" \in OpNames(ops)
    /\ Op("hdiutil detach", FALSE) \in OpSet(ops) =>
         "hdiutil detach -force" \in OpNames(ops)
    /\ Op("hdiutil detach -force", FALSE) \in OpSet(ops) => err # "detach"

\* The same statement for the Go pipeline alone.
C8_GoUnmountAlwaysAttempted == platform = "macos" => C8_UnmountAlwaysAttempted

\* InstallApp (Go) or the copy block of install_rocq_macos (shell) was reached.
CopyReached ==
  \/ platform = "macos" /\ "InstallApp" \in OpNames(ops)
  \/ platform = "sh_macos" /\ ("hdiutil detach" \in OpNames(ops) \/ err = "rsync")

RemovalOps == {"RemoveAll", "rm -rf"}

CopyOps == {"rsync", "cp -R"}

\* C9: when the destination bundle exists and force is false, the install
\* makes no removal and no copy, leaves the destination as it was and yields
\* the path of the existing destination; an existing destination is removed
\* only when force is true.
C9_ExistingDestinationKept ==
  (CopyReached /\ locals.destBefore # "none") =>
    /\ ~cfg.force =>
         /\ OpNames(ops) \cap (RemovalOps \cup CopyOps) = {}
         /\ machine.dest = locals.destBefore
         /\ (platform = "macos" => Op("InstallApp", TRUE) \in OpSet(ops))
         /\ locals.installedAppPath = AppDst(machine.appsWritable)
    /\ OpNames(ops) \cap RemovalOps # {} => cfg.force

C9_Witness ==
  /\ platform = "macos"
  /\ pc = "step4"
  /\ ~cfg.SkipInstall
  /\ locals.destBefore = "old"
  /\ machine.dest = "old"

-----------------------------------------------------------------------------
(* Properties of the shell installer's Linux strategy *)

MajorMinor(v) == <<v[1], v[2]>>

\* C10 as stated: after the packages are installed, when the version the
\* installed binary reports does not have the requested major.minor (for
\* example 9.0.0 requested and 8.19.x reported, for any x), the run aborts
\* with a fatal error.
C10_VersionMismatchAborts ==
  (/\ platform = "sh_linux"
   /\ pc = "done"
   /\ "grep -q" \in OpNames(ops)
   /\ MajorMinor(machine.rocq.ver) # MajorMinor(manifest.ROCQ_VERSION))
    => err # ""

\* The check does abort when the reported text has no match for the pattern.
C10_Witness ==
  /\ platform = "sh_linux"
  /\ pc = "done"
  /\ MajorMinor(machine.rocq.ver) # MajorMinor(manifest.ROCQ_VERSION)
  /\ err = "Installed rocq does not match requested Rocq"

-----------------------------------------------------------------------------
(* Properties of the GUI *)

\* C6 as stated: at most one installation run is in flight at any time, and
\* the Install button stays disabled for as long as a run is in flight,
\* whatever the interleaving with the start and the end of a Doctor run.
C6_SingleRunInFlight ==
  gui.open =>
    /\ gui.running <= 1
    /\ (gui.running > 0 => ~gui.installEnabled)

\* Two installation runs are in flight.
C6_Witness == gui.open /\ gui.running = 2

-----------------------------------------------------------------------------
(* Properties of the source-package-manager strategy *)

OpamPlatforms == {"linux", "sh_linux"}

\* The switch step has run (it starts with a listing).
SwitchStepRan == platform \in OpamPlatforms /\ "opam switch list" \in OpNames(ops)

\* The recreate flag of the run; the Linux Run has none.
RecreateRequested == platform = "sh_linux" /\ cfg.RECREATE_SWITCH = 1

\* The position of the first operation named n in os, 0 when there is none.
FirstOp(os, n) ==
  IF n \in OpNames(os)
  THEN CHOOSE i \in 1..Len(os) : os[i].op = n /\ \A j \in 1..(i - 1) : os[j].op # n
  ELSE 0

\* Every switch listing of the run succeeded.
ListingsOk == Op("opam switch list", FALSE) \notin OpSet(ops)

\* Repository configuration has started.
RepoStarted ==
  \/ platform = "sh_linux" /\ (pc = "sh_repo" \/ "opam repo add" \in OpNames(ops))
  \/ platform = "linux" /\ (pc = "step4" \/ "opam repo add" \in OpNames(ops))

-----------------------------------------------------------------------------
(* Properties of the elevated installer *)

\* Step 3 of the Windows Run has called RunInnoSetup.
InnoRan == platform = "windows" /\ "RunInnoSetup" \in OpNames(ops)

\* C12: the elevated-installer strategy blocks until the installer process
\* has exited and reports success only if its exit code is 0; a nonzero exit
\* code, a failed launch or a failed wait makes step 3 fail and aborts the run.
C12_InstallerAwaited ==
  InnoRan =>
    /\ Op("RunInnoSetup", TRUE) \in OpSet(ops) =>
         /\ Op("WaitForSingleObject", TRUE) \in OpSet(ops)
         /\ Op("installer exit code 0", TRUE) \in OpSet(ops)
    /\ (\/ Op("ShellExecuteEx", FALSE) \in OpSet(ops)
        \/ Op("WaitForSingleObject", FALSE) \in OpSet(ops)
        \/ Op("installer exit code 0", FALSE) \in OpSet(ops)) =>
         /\ pc = "done" /\ err = "install" /\ result = NilResult
         /\ locals.failedStep = 3
         /\ StepsOf(reports) \cap 4..7 = {}

\* A nonzero exit code aborted the run at step 3.
C12_Witness ==
  /\ InnoRan
  /\ Op("installer exit code 0", FALSE) \in OpSet(ops)
  /\ pc = "done" /\ err = "install" /\ locals.failedStep = 3

-----------------------------------------------------------------------------
(* Properties of Download *)

\* The download completed: Download returned the path of the file.
DownloadCompleted == platform = "download" /\ pc = "done" /\ err = ""

\* A completion report: all bytes of the body, with the total as announced.
IsCompletionReport(c) == c.downloaded = locals.size /\ c.total = locals.total

CompletionReports == {i \in 1..Len(locals.calls) : IsCompletionReport(locals.calls[i])}

\* C13 (amended): for every completed download the progress callback
\* receives the completion report as its last call, and receives it once or
\* twice: twice exactly when the read that delivered the last bytes of the
\* body passed the 200 ms throttle (as the first read with data always does);
\* the byte counts reported never decrease.
C13_CompletionReported ==
  DownloadCompleted =>
    /\ locals.calls # <<>>
    /\ IsCompletionReport(locals.calls[Len(locals.calls)])
    /\ Cardinality(CompletionReports) =
         IF locals.size > 0 /\ locals.lastReported THEN 2 ELSE 1
    /\ \A i \in 1..Len(locals.calls) : \A j \in i..Len(locals.calls) :
         locals.calls[i].downloaded <= locals.calls[j].downloaded

\* The last chunk did not pass the throttle: the report after the loop is the
\* only completion report.
C13_Witness ==
  /\ DownloadCompleted
  /\ locals.size = MaxBytes
  /\ Len(locals.calls) >= 2
  /\ ~locals.lastReported
  /\ Cardinality(CompletionReports) = 1

\* C13 as stated: for every completed download the progress callback
\* receives the completion report exactly once.
C13_CompletionReportedOnce ==
  DownloadCompleted => Cardinality(CompletionReports) = 1

-----------------------------------------------------------------------------
(* Properties of the detector *)

Detected == pc = "done" /\ platform \in {"windows", "macos"} /\ "found" \in DOMAIN locals

\* The installation root an entry denotes.
EntryRoot(dir) == IF platform = "windows" THEN RootOf(dir) ELSE dir

\* Everything the sources reported, in discovery order.
Discovered ==
  IF platform = "windows"
  THEN SelectSeq(locals.glob \o locals.registry \o <<DirR>> \o locals.lookPath,
                 LAMBDA d : RootOf(d) \in machine.installed)
  ELSE locals.glob \o locals.lookPath \o locals.brew

\* C14: the detector's result never contains the same installation root
\* twice, whichever discovery sources reported it, every reported root is in
\* the result, and the entries keep first-discovery order.
C14_NoDuplicateRoots ==
  Detected =>
    LET found == locals.found IN
    /\ \A i \in 1..Len(found) : \A j \in (i + 1)..Len(found) :
         EntryRoot(found[i]) # EntryRoot(found[j])
    /\ \A i \in 1..Len(Discovered) :
         \E j \in 1..Len(found) : EntryRoot(found[j]) = EntryRoot(Discovered[i])
    /\ \A i \in 1..Len(found) : \A j \in (i + 1)..Len(found) :
         \E k \in 1..Len(Discovered) :
           /\ Discovered[k] = found[i]
           /\ \A l \in 1..k : EntryRoot(Discovered[l]) # EntryRoot(found[j])

\* Two sources report one directory in different letter case: one entry.
C14_Witness ==
  /\ Detected
  /\ platform = "windows"
  /\ locals.glob = <<DirP>>
  /\ locals.registry = <<DirPLower>>
  /\ locals.found = <<DirP>>

-----------------------------------------------------------------------------
(* Properties of checksum verification *)

Verified == pc = "done" /\ platform \in {"macos", "sh_macos"} /\ "ok" \in DOMAIN locals

\* C15: verification with an empty expected hash succeeds regardless of the
\* file's contents (and of whether the file can be read at all).
C15_EmptyExpectedSucceeds ==
  (Verified /\ manifest.SHA256 = <<>>) => locals.ok

\* An unreadable file passes verification against an empty expected hash.
C15_Witness ==
  /\ Verified
  /\ manifest.SHA256 = <<>>
  /\ ~locals.opened
  /\ locals.ok

-----------------------------------------------------------------------------
(* Properties of the temporary download directory *)

DownloadingPlatforms == {"macos", "windows"}

C16_WitnessPartial ==
  /\ platform = "windows"
  /\ pc = "done"
  /\ err = "download"
  /\ machine.tmp = "partial"

-----------------------------------------------------------------------------
(* Properties of the binary locator *)

Located == pc = "done" /\ "searched" \in DOMAIN locals

\* The name the toolchain version calls for.
NameForVersion(v) == IF v[1] < 9 THEN "vscoqtop" ELSE "vsrocqtop"

\* C17: the language-server binary name the pipeline searches for is
\* selected once from the resolved toolchain version, vscoqtop when the major
\* version is below 9 and vsrocqtop when it is 9 or above, and the pipeline
\* never searches for the other name (Go pipelines).
C17_NameFromVersion ==
  (Located /\ platform \in {"macos", "windows"}) =>
    locals.searched = {NameForVersion(locals.version)}

\* FindLanguageServerTop searches for vscoqtop alone under version 8.20.1.
C17_Witness ==
  /\ Located
  /\ locals.fn = "mac.FindLanguageServerTop"
  /\ locals.version[1] < 9
  /\ locals.searched = {"vscoqtop"}
  /\ locals.fs["path"] = BinNames
  /\ locals.path = <<"path", "vscoqtop">>

\* The order in which each locator goes through its sources.
LocatorOrder ==
  CASE locals.fn = "mac.FindLanguageServerTop" -> <<"root_walk", "path", "known", "scan">>
    [] locals.fn \in {"win.FindLanguageServerTop", "win.FindVsrocqtop"} ->
         <<"root_direct", "root_walk">>
    [] locals.fn = "find_vsrocqtop_macos" -> <<"path", "known", "scan">>

TheName == CHOOSE n \in locals.searched : TRUE

\* C18 (amended): each locator returns the first hit in its own fixed order:
\* the macOS GUI locator walks the installed bundle first, then the process
\* search path, the fixed locations and the scan of the application
\* directories; the Windows locator tries the direct candidates under bin and
\* then walks the install directory; the shell locator tries the process
\* search path, the fixed locations and the scan.  A later source is consulted
\* only when every earlier one found nothing, and not-found is returned only
\* when all its sources fail.
C18_FirstHitInOrder ==
  Located =>
    LET n == Len(locals.consulted) IN
    /\ n >= 1
    /\ locals.consulted = SubSeq(LocatorOrder, 1, n)
    /\ \A i \in 1..(n - 1) : TheName \notin locals.fs[locals.consulted[i]]
    /\ IF TheName \in locals.fs[locals.consulted[n]]
       THEN locals.path = <<locals.consulted[n], TheName>> /\ err = ""
       ELSE /\ locals.path = <<>> /\ err = "not found"
            /\ n = Len(LocatorOrder)

\* The macOS locator returns the binary of the installed bundle without
\* consulting the search path, which has it too.
C18_Witness ==
  /\ Located
  /\ locals.fn = "mac.FindLanguageServerTop"
  /\ TheName \in locals.fs["path"]
  /\ locals.path = <<"root_walk", TheName>>
  /\ locals.consulted = <<"root_walk">>

\* The place of a source in the order direct candidates, search path, fixed
\* locations, walk of the install root, scan of the application directories.
SourceRank(s) ==
  CASE s = "root_direct" -> 1 [] s = "path" -> 2 [] s = "known" -> 3
    [] s = "root_walk" -> 4 [] s = "scan" -> 5

\* C18 as stated: the locator returns the first hit in the order direct
\* candidate paths, process search path, fixed well-known locations, bounded
\* recursive walk: no source of the locator that comes earlier in that order
\* has the binary, and not-found is returned only when all sources fail.
C18_FirstHitInStatedOrder ==
  Located =>
    /\ locals.path # <<>> =>
         \A i \in 1..Len(LocatorOrder) :
           SourceRank(LocatorOrder[i]) < SourceRank(locals.path[1]) =>
             TheName \notin locals.fs[LocatorOrder[i]]
    /\ locals.path = <<>> =>
         \A i \in 1..Len(LocatorOrder) : TheName \notin locals.fs[LocatorOrder[i]]

-----------------------------------------------------------------------------
(* Properties of the switch name *)

BothNamed == pc = "naming" /\ locals.sh # <<>> /\ locals.go # <<>>

\* major.minor: the first two dot-separated components of the version.
FirstTwoComponents ==
  IF Len(manifest.components) = 1 THEN JoinDots(manifest.components)
  ELSE JoinDots(SubSeq(manifest.components, 1, 2))

\* CP.<release>~<major.minor>, with ~<snapshot> when one is configured.
ConventionalName ==
  <<"C", "P", ".">> \o manifest.platform_release \o <<"~">> \o FirstTwoComponents
  \o (IF manifest.opam_snapshot # <<>> THEN <<"~">> \o manifest.opam_snapshot ELSE <<>>)

\* C19: for every toolchain version and release identifier, the shell
\* installer and the GUI installer compute the same switch name
\* CP.<release>~<major.minor>, with ~<snapshot> appended when a snapshot is
\* configured, where major.minor is the first two dot-separated components
\* of the version.
C19_SameSwitchName ==
  BothNamed =>
    /\ locals.sh = locals.go
    /\ locals.go = ConventionalName

\* Version 9.0.0 and release 2025.08.1 without snapshot: both compute
\* CP.2025.08.1~9.0.
C19_Witness ==
  /\ BothNamed
  /\ manifest.components = <<9, 0, 0>>
  /\ manifest.opam_snapshot = <<>>
  /\ locals.sh = locals.go
  /\ locals.go = <<"C", "P", ".", "2", "0", "2", "5", ".", "0", "8", ".", "1", "~", "9", ".", "0">>

-----------------------------------------------------------------------------
(* Properties of the package installation's progress *)

InPackages == platform = "linux" /\ pc \in {"pkg_start", "pkg_scan", "done"} /\ "lineCount" \in DOMAIN locals

\* f <= g for fractions.
FracLeq(f, g) == f[1] * g[2] <= g[1] * f[2]

\* C20: during package installation the step's fraction is derived from
\* the count of output lines, never decreases, and stays strictly below 1.0
\* (it is capped) until the process has exited; 1.0 is reported only after
\* the process exited successfully.
C20_FractionBelowOneUntilExit ==
  InPackages =>
    /\ \A i \in 1..Len(reports) : reports[i].step = 5
    /\ \A i \in 1..(Len(reports) - 1) :
         FracLeq(reports[i].fraction, reports[i + 1].fraction)
    /\ \A i \in 2..(locals.lineCount + 1) :
         i <= Len(reports) =>
           LET f == reports[i].fraction IN
           /\ f[1] * 200 = (i - 1) * f[2] \/ (f = <<95, 100>> /\ i - 1 >= 190)
           /\ ~IsOne(f) /\ FracLeq(f, <<95, 100>>)
    /\ \A i \in 1..Len(reports) :
         IsOne(reports[i].fraction) =>
           /\ i = Len(reports)
           /\ pc = "done" /\ err = "" /\ locals.exit = "ok" /\ ~locals.running

\* More than 200 lines were reported, the cap held, and 1.0 followed the exit.
C20_Witness ==
  /\ InPackages
  /\ pc = "done"
  /\ locals.lineCount > 200
  /\ locals.exit = "ok"
  /\ reports[Len(reports) - 1].fraction = <<95, 100>>
  /\ IsOne(reports[Len(reports)].fraction)

-----------------------------------------------------------------------------
(* C21 *)

\* The package-manager check has been passed: the run went on to its next step.
PastOpamCheck ==
  \/ platform = "linux" /\ \E i \in 1..Len(ops) : ops[i] = Op("ensureOpam", TRUE)
  \/ platform = "sh_linux" /\ pc \notin {"sh_opam"} /\ err \notin
       {"opam installation failed", "opam >= 2.1.0 required", "opam init"}

Bootstrapped == \E i \in 1..Len(ops) : ops[i] = Op("install opam", TRUE)

\* C21: on Linux, no run fails at the package-manager check because opam is
\* absent: an absent opam is bootstrapped, and the run goes on.
C21_AbsentOpamBootstrapped ==
  platform \in OpamPlatforms => err # "opam: opam not found in PATH"

\* The shell installer found no opam, bootstrapped it and went on to create
\* the switch, install the packages and resolve the binaries.
C21_Witness ==
  /\ platform = "sh_linux"
  /\ Bootstrapped
  /\ PastOpamCheck
  /\ pc = "done"
  /\ err = ""
  /\ \E i \in 1..Len(ops) : ops[i] = Op("opam switch create", TRUE)

-----------------------------------------------------------------------------
(* C22 *)

\* A run returns to the presentation layer with an error.
RunEndsWithError == gui'.running < gui.running /\ err' # ""

\* C22: whenever a run returns an error, the error dialog is shown on top with
\* that run's error message, the Install button is enabled, and no run is
\* started by the return; a run is started only by a tap on Install or by the
\* answer to the existing-installation dialog.
C22_ErrorSurfacedAndRetriable ==
  [][/\ (RunEndsWithError =>
           /\ gui'.dialogs # <<>>
           /\ gui'.dialogs[Len(gui'.dialogs)] = "error"
           /\ gui'.errorShown = err'
           /\ gui'.installEnabled
           /\ gui'.running = gui.running - 1)
      /\ (gui'.running > gui.running =>
           \/ gui'.taps > gui.taps
           \/ gui.dialogs # <<>> /\ gui.dialogs[Len(gui.dialogs)] = "existing")]_vars

\* After a run failed, the error dialog was closed and Install tapped again:
\* a new run is in flight.
C22_Witness ==
  /\ gui.open
  /\ gui.errorShown = err
  /\ err \in RunErrors
  /\ gui.dialogs = <<>>
  /\ gui.running = 1
  /\ gui.taps = 2
  /\ gui.doctors = 0
  /\ gui.doctorEnabled

-----------------------------------------------------------------------------
(* The shell installer's CLI validation and its diagnostics-only invocation *)

\* Variant of run_cli_test without the test for test.vo.
run_cli_test_no_artifact(testfile, rocq, compiled, vo) ==
  IF ~testfile THEN "Missing test file"
  ELSE IF ~rocq THEN "No rocq binary found to run test"
  ELSE IF ~compiled THEN "CLI test failed"
  ELSE ""

\* run_cli_test: the error the script dies with, "" when the test passes.
\* testfile: test.v exists; rocq: ROCQ_PATH is executable or rocq is on PATH;
\* compiled: rocq compile exited with 0; vo: test.vo exists afterwards.
run_cli_test(testfile, rocq, compiled, vo) ==
  IF ~testfile THEN "Missing test file"
  ELSE IF ~rocq THEN "No rocq binary found to run test"
  ELSE IF ~compiled THEN "CLI test failed"
  ELSE IF ~vo THEN "CLI test failed: expected test.vo not found"
  ELSE ""

\* The script ends with the given exit status.
ShExit(status, msg, os, m, ls) ==
  /\ pc' = "done"
  /\ err' = msg
  /\ ops' = os
  /\ machine' = m
  /\ locals' = [ls EXCEPT !.exit = status]
  /\ UNCHANGED <<platform, manifest, cfg, reports, result, prev, runs, gui>>

\* ensure_jq: "" when jq is available afterwards, else the error; the second
\* component tells whether a package manager was run to install jq.
ensure_jq(jq, canInstall, installOk) ==
  IF jq THEN <<"", FALSE>>
  ELSE IF ~canInstall THEN <<"jq is required but cannot install", FALSE>>
  ELSE IF ~installOk THEN <<"jq installation failed", TRUE>>
  ELSE <<"", TRUE>>

\* main with DOCTOR=1 up to the end of resolve_release: detect_os_arch, the
\* manifest, jq, and on macOS the asset of the manifest.
Doctor_Resolve ==
  /\ platform = "doctor"
  /\ pc = "dr_resolve"
  /\ \E installOk \in BOOLEAN :
       LET jq == ensure_jq(machine.jq, machine.canInstall, installOk)
           os == IF jq[2] THEN Append(ops, Op("install jq", jq[1] = "")) ELSE ops
           m == IF jq[2] /\ jq[1] = "" THEN [machine EXCEPT !.jq = TRUE] ELSE machine
       IN
       /\ (~jq[2] => installOk)
       /\ IF ~machine.manifestOk
            THEN /\ installOk
                 /\ ShExit(1, "download manifest", ops, machine, locals)
          ELSE IF jq[1] # ""
            THEN ShExit(1, jq[1], os, m, locals)
          ELSE IF machine.os = "linux"
            THEN ShNext("dr_workspace", os, m, locals)
          ELSE IF machine.os # "macos"
            THEN ShExit(1, "No asset type", os, m, locals)
          ELSE IF ~machine.signed
            THEN ShExit(1, "Resolved URL is not a signed installer", os, m, locals)
          ELSE ShNext("dr_workspace", os, m, locals)

\* ensure_workspace, doctor_environment and doctor_workspace.
Doctor_Workspace ==
  /\ platform = "doctor"
  /\ pc = "dr_workspace"
  /\ IF ~machine.writable
       THEN ShExit(1, "mkdir", Append(ops, Op("ensure_workspace", FALSE)), machine, locals)
       ELSE ShNext("dr_platform", Append(ops, Op("ensure_workspace", TRUE)),
                   [machine EXCEPT !.workspace = TRUE], locals)

\* doctor_linux_opam: opam, the switch and the rocq of the switch are
\* required; repositories, package versions and vsrocqtop only warn.
Doctor_LinuxOpam ==
  /\ platform = "doctor"
  /\ pc = "dr_platform"
  /\ machine.os = "linux"
  /\ LET w == IF machine.pkgsOk THEN locals.warnings
              ELSE locals.warnings \cup {"version mismatch"}
         ls == [locals EXCEPT !.warnings = w]
         cli == run_cli_test(machine.workspace, machine.rocq, machine.compiles, machine.vo)
     IN
     IF ~machine.opam
       THEN ShExit(1, "Missing required command: opam", ops, machine, locals)
     ELSE IF ~machine.switch
       THEN ShExit(1, "opam switch not found", ops, machine, locals)
     ELSE IF ~machine.rocq
       THEN ShExit(1, "rocq not found in switch bin", ops, machine, ls)
     ELSE IF cli # ""
       THEN ShExit(1, cli, Append(ops, Op("rocq compile", FALSE)), machine, ls)
     ELSE ShNext("dr_vscode", Append(ops, Op("rocq compile", TRUE)), machine, ls)

\* doctor_macos_app: missing binaries only warn; then the CLI test.
Doctor_MacApp ==
  /\ platform = "doctor"
  /\ pc = "dr_platform"
  /\ machine.os = "macos"
  /\ LET w == IF machine.rocq THEN locals.warnings
              ELSE locals.warnings \cup {"rocq binary not detected"}
         ls == [locals EXCEPT !.warnings = w]
         cli == run_cli_test(machine.workspace, machine.rocq, machine.compiles, machine.vo)
     IN
     IF cli # ""
       THEN ShExit(1, cli, Append(ops, Op("rocq compile", FALSE)), machine, ls)
       ELSE ShNext("dr_vscode", Append(ops, Op("rocq compile", TRUE)), machine, ls)

\* doctor_vscode only warns; main logs "Doctor completed" and exits with 0.
Doctor_Vscode ==
  /\ platform = "doctor"
  /\ pc = "dr_vscode"
  /\ \E extension \in BOOLEAN :
       ShExit(0, "", ops, machine,
              [locals EXCEPT !.warnings =
                 IF extension THEN @ ELSE @ \cup {"VSCode extension NOT installed"}])

\* The machine a diagnostics run finds.  Without rocq nothing compiles, and
\* test.vo is there only after a compilation.
DoctorMachines ==
  {m \in [os : {"linux", "macos", "unknown"}, manifestOk : BOOLEAN, jq : BOOLEAN,
          canInstall : BOOLEAN, signed : BOOLEAN, writable : BOOLEAN,
          workspace : {FALSE}, opam : BOOLEAN, switch : BOOLEAN, pkgsOk : BOOLEAN,
          rocq : BOOLEAN, compiles : BOOLEAN, vo : BOOLEAN] :
     /\ (m.os # "macos" => m.signed)
     /\ (m.os # "linux" => m.opam /\ m.switch /\ m.pkgsOk)
     /\ (m.os = "unknown" => m.rocq /\ m.compiles /\ m.writable)
     /\ (~m.opam => ~m.switch)
     /\ (~m.switch => ~m.rocq /\ ~m.pkgsOk)
     /\ (~m.rocq => ~m.compiles)
     /\ (~m.compiles => ~m.vo)}

InitDoctor ==
  /\ platform = "doctor"
  /\ manifest = [SHA256 |-> <<>>]
  /\ machine \in DoctorMachines
  /\ pc = "dr_resolve"
  /\ cfg = [DOCTOR |-> 1]
  /\ locals = [exit |-> -1, warnings |-> {}]
  /\ reports = <<>>
  /\ ops = <<>>
  /\ result = NilResult
  /\ err = ""
  /\ prev = NoPrev
  /\ runs = 0
  /\ gui = NoGui

NextDoctor ==
  \/ Doctor_Resolve
  \/ Doctor_Workspace
  \/ Doctor_LinuxOpam
  \/ Doctor_MacApp
  \/ Doctor_Vscode

SpecDoctor == InitDoctor /\ [][NextDoctor]_vars

-----------------------------------------------------------------------------
(* C23 *)

DoctorEnded == platform = "doctor" /\ pc = "done"

\* C23: a diagnostics-only invocation installs nothing and ends with exit
\* status 0, whatever the diagnostics find.
C23_DoctorInstallsNothingExitsZero ==
  DoctorEnded =>
    /\ locals.exit = 0
    /\ "install jq" \notin OpNames(ops)

\* A diagnostics run that found something to warn about, installed nothing
\* and ended with exit status 0.
C23_Witness ==
  /\ DoctorEnded
  /\ locals.exit = 0
  /\ locals.warnings # {}
  /\ "install jq" \notin OpNames(ops)

-----------------------------------------------------------------------------
(* main of the shell installer, from the resolution of the release on *)

\* Lines 38-73: resolve_release, then the strategy of the OS or, with
\* --test-only, the lookup of vsrocqtop; VSROCQTOP_PATH is required unless the
\* editor is skipped.
Main_Install ==
  /\ platform = "sh_main"
  /\ pc = "main_install"
  /\ IF ~machine.resolveOk
       THEN ShExit(1, "resolve_release", ops, machine, locals)
     ELSE IF cfg.TEST_ONLY = 1
       THEN IF ~machine.vsrocqtop /\ (machine.os = "macos" \/ cfg.SKIP_VSCODE = 0)
              THEN ShExit(1, "vsrocqtop not found", ops, machine, locals)
              ELSE ShNext("main_workspace", ops, machine, locals)
     ELSE IF ~machine.strategyOk
       THEN ShExit(1, "install", Append(ops, Op("install", FALSE)), machine, locals)
     ELSE IF cfg.SKIP_VSCODE = 0 /\ ~machine.vsrocqtop
       THEN ShExit(1, "VSROCQTOP_PATH is empty after installation",
                   Append(ops, Op("install", TRUE)), machine, locals)
     ELSE ShNext("main_workspace", Append(ops, Op("install", TRUE)), machine, locals)

\* Line 75: ensure_workspace.
Main_Workspace ==
  /\ platform = "sh_main"
  /\ pc = "main_workspace"
  /\ IF ~machine.writable
       THEN ShExit(1, "mkdir", Append(ops, Op("ensure_workspace", FALSE)), machine, locals)
       ELSE ShNext("main_vscode", Append(ops, Op("ensure_workspace", TRUE)),
                   [machine EXCEPT !.workspace = TRUE], locals)

\* Lines 77-83: the editor, its extension and its settings, unless skipped.
Main_Vscode ==
  /\ platform = "sh_main"
  /\ pc = "main_vscode"
  /\ IF cfg.SKIP_VSCODE = 0 /\ ~machine.vscodeOk
       THEN ShExit(1, "vscode", ops, machine, locals)
       ELSE ShNext("main_test", ops, machine, locals)

\* Line 85: run_cli_test.  The compile runs when test.v and a rocq are there.
Main_CliTest ==
  /\ platform = "sh_main"
  /\ pc = "main_test"
  /\ LET cli == run_cli_test(machine.workspace, machine.rocq, machine.compiles, machine.vo)
         os == IF machine.workspace /\ machine.rocq
               THEN Append(ops, Op("rocq compile", machine.compiles)) ELSE ops
     IN
     IF cli # ""
       THEN ShExit(1, cli, os, machine, locals)
       ELSE ShNext("main_summary", os, machine, locals)

\* Lines 87-96: summary_success, the activation hint, and the end of the script.
Main_Summary ==
  /\ platform = "sh_main"
  /\ pc = "main_summary"
  /\ ShExit(0, "", ops, machine, [locals EXCEPT !.summary = TRUE])

\* vo: test.vo is in the workspace once rocq compile has run (written by it, or
\* left there by an earlier run).
MainMachines ==
  {m \in [os : {"linux", "macos"}, resolveOk : BOOLEAN, strategyOk : BOOLEAN,
          vsrocqtop : BOOLEAN, writable : BOOLEAN, workspace : {FALSE},
          vscodeOk : BOOLEAN, rocq : BOOLEAN, compiles : BOOLEAN, vo : BOOLEAN] :
     ~m.rocq => ~m.compiles}

InitMain ==
  /\ platform = "sh_main"
  /\ manifest = [SHA256 |-> <<>>]
  /\ machine \in MainMachines
  /\ pc = "main_install"
  /\ cfg \in [DOCTOR : {0}, TEST_ONLY : {0, 1}, SKIP_VSCODE : {0, 1}]
  /\ locals = [exit |-> -1, summary |-> FALSE]
  /\ reports = <<>>
  /\ ops = <<>>
  /\ result = NilResult
  /\ err = ""
  /\ prev = NoPrev
  /\ runs = 0
  /\ gui = NoGui

NextMain ==
  \/ Main_Install
  \/ Main_Workspace
  \/ Main_Vscode
  \/ Main_CliTest
  \/ Main_Summary

SpecMain == InitMain /\ [][NextMain]_vars

-----------------------------------------------------------------------------
(* C24 *)

InMain == platform = "sh_main"

\* The CLI validation passed: rocq compile test.v exited with 0 and test.vo is
\* in the workspace.
ValidationPassed == Op("rocq compile", TRUE) \in OpSet(ops) /\ machine.vo

\* The validation has been run (the script went past line 85 or died in it).
ValidationRan == pc \in {"main_summary", "done"} /\ "ensure_workspace" \in OpNames(ops)
                 /\ err \notin {"mkdir", "vscode"}

\* C24: the shell installer reports success, and ends with exit status 0, only
\* if rocq compile test.v succeeded and test.vo is there; when the validation
\* fails the script ends with a non-zero status and no success summary.
C24_SuccessOnlyAfterValidation ==
  InMain =>
    /\ (locals.summary => ValidationPassed)
    /\ (pc = "done" /\ locals.exit = 0 => locals.summary /\ ValidationPassed)
    /\ (ValidationRan /\ ~ValidationPassed =>
          pc = "done" /\ locals.exit # 0 /\ ~locals.summary)

\* The compile exited with 0 but left no test.vo: the script ended with a
\* non-zero status and reported no success.
C24_Witness ==
  /\ InMain
  /\ pc = "done"
  /\ Op("rocq compile", TRUE) \in OpSet(ops)
  /\ ~machine.vo
  /\ locals.exit = 1
  /\ ~locals.summary

\* A run that reported success after a validation that passed.
C24_WitnessSuccess == InMain /\ locals.summary /\ locals.exit = 0 /\ ValidationPassed

-----------------------------------------------------------------------------
(* macOS: which asset URLs are accepted and downloaded *)

\* URLs and asset names are sequences of these tokens.
UrlTokens == {"/", "signed_", "x", ".dmg"}

\* The name of the asset a URL designates: what follows its last "/".
AssetNameOf(url) ==
  LET slashes == {i \in 1..Len(url) : url[i] = "/"} IN
  IF slashes = {} THEN url
  ELSE SubSeq(url, (CHOOSE i \in slashes : \A j \in slashes : j <= i) + 1, Len(url))

\* strings.HasPrefix(name, "signed_")
HasSignedPrefix(name) == name # <<>> /\ name[1] = "signed_"

\* strings.HasSuffix(name, ".dmg")
HasDmgSuffix(name) == name # <<>> /\ name[Len(name)] = ".dmg"

\* [[ "$ASSET_URL" == *"/signed_"* ]]
ShUrlIsSigned(url) == \E i \in 1..(Len(url) - 1) : url[i] = "/" /\ url[i + 1] = "signed_"

\* manifest.Parse: the error, "" when the manifest is accepted.
Parse(url) == IF url = <<>> THEN "manifest: no macOS arm64 asset URL" ELSE ""

\* findSignedDMG: the URL of the first signed .dmg asset, <<>> when none.  The
\* preference for a non-intel image picks among signed assets only.
findSignedDMG(assets) ==
  LET signed == {i \in 1..Len(assets) :
                   HasSignedPrefix(assets[i].Name) /\ HasDmgSuffix(assets[i].Name)}
  IN IF signed = {} THEN <<>>
     ELSE assets[CHOOSE i \in signed : \A j \in signed : i <= j].URL

SignedReturn(e, ls) ==
  /\ pc' = "done"
  /\ err' = e
  /\ locals' = ls
  /\ UNCHANGED <<platform, manifest, machine, cfg, reports, ops, result, prev, runs, gui>>

\* resolve_release of the shell installer on macOS (lines 71-80).
Signed_ShResolve ==
  /\ platform = "sh_macos"
  /\ pc = "resolve"
  /\ IF manifest.url = <<>>
       THEN SignedReturn("No asset url", locals)
     ELSE IF ~ShUrlIsSigned(manifest.url)
       THEN SignedReturn("Resolved URL is not a signed installer", locals)
     ELSE /\ pc' = "download"
          /\ UNCHANGED <<platform, manifest, machine, cfg, locals, reports, ops, result,
                         err, prev, runs, gui>>

\* manifest.Load / Parse of the GUI installer's embedded manifest.
Signed_GoParse ==
  /\ platform = "macos"
  /\ pc = "resolve"
  /\ IF Parse(manifest.url) # ""
       THEN SignedReturn(Parse(manifest.url), locals)
       ELSE /\ pc' = "download"
            /\ UNCHANGED <<platform, manifest, machine, cfg, locals, reports, ops, result,
                           err, prev, runs, gui>>

\* FetchManifestForTag: the manifest built from the assets of a release.
Signed_FetchManifestForTag ==
  /\ platform = "releases"
  /\ pc = "resolve"
  /\ LET dmgURL == findSignedDMG(locals.assets) IN
     IF dmgURL = <<>>
       THEN SignedReturn("no signed .dmg asset found", locals)
       ELSE /\ pc' = "download"
            /\ manifest' = [manifest EXCEPT !.url = dmgURL]
            /\ UNCHANGED <<platform, machine, cfg, locals, reports, ops, result, err,
                           prev, runs, gui>>

\* Step 1 of the installation: the asset URL of the manifest is downloaded.
Signed_Download ==
  /\ pc = "download"
  /\ pc' = "done"
  /\ locals' = [locals EXCEPT !.downloaded = Append(@, manifest.url)]
  /\ UNCHANGED <<platform, manifest, machine, cfg, reports, ops, result, err, prev, runs,
                 gui>>

AssetNames ==
  {<<"signed_", "x", ".dmg">>, <<"signed_", "x">>, <<"x", ".dmg">>, <<"signed_", ".dmg">>}

\* A release asset's browser_download_url ends with its name.
ReleaseAssets == {[Name |-> n, URL |-> <<"x", "/">> \o n] : n \in AssetNames}

InitSigned ==
  /\ platform \in {"sh_macos", "macos", "releases"}
  /\ \/ /\ platform # "releases"
        /\ \E url \in SeqsUpTo(UrlTokens, MaxUrl) : manifest = [SHA256 |-> <<>>, url |-> url]
        /\ locals = [assets |-> <<>>, downloaded |-> <<>>]
     \/ /\ platform = "releases"
        /\ manifest = [SHA256 |-> <<>>, url |-> <<>>]
        /\ \E assets \in SeqsUpTo(ReleaseAssets, MaxAssets) :
             locals = [assets |-> assets, downloaded |-> <<>>]
  /\ machine = [tmp |-> "none"]
  /\ pc = "resolve"
  /\ cfg = NoCfg
  /\ reports = <<>>
  /\ ops = <<>>
  /\ result = NilResult
  /\ err = ""
  /\ prev = NoPrev
  /\ runs = 0
  /\ gui = NoGui

NextSigned ==
  \/ Signed_ShResolve
  \/ Signed_GoParse
  \/ Signed_FetchManifestForTag
  \/ Signed_Download

SpecSigned == InitSigned /\ [][NextSigned]_vars

-----------------------------------------------------------------------------
(* C25 *)

SignedPlatforms == {"sh_macos", "macos", "releases"}

\* The URL designates a signed release asset: its name starts with signed_.
IsSignedAsset(url) == HasSignedPrefix(AssetNameOf(url))

\* C25: on macOS every URL that is downloaded designates a signed asset, and a
\* manifest whose asset URL does not is rejected before any download starts.
C25_OnlySignedAssets ==
  (platform \in SignedPlatforms /\ pc \in {"resolve", "download", "done"}
   /\ "downloaded" \in DOMAIN locals) =>
    /\ \A i \in 1..Len(locals.downloaded) : IsSignedAsset(locals.downloaded[i])
    /\ (pc = "download" => IsSignedAsset(manifest.url))

\* The shell installer rejected a manifest whose URL names an unsigned asset,
\* before any download.
C25_Witness ==
  /\ platform = "sh_macos"
  /\ pc = "done"
  /\ manifest.url # <<>>
  /\ ~IsSignedAsset(manifest.url)
  /\ err = "Resolved URL is not a signed installer"
  /\ locals.downloaded = <<>>

-----------------------------------------------------------------------------
(* The recursive walk of the locators *)

\* The maxDepth both calls of walkForBinary pass.
walkMaxDepth == 6

\* The entries a walk visits, in the order filepath.Walk visits them.  depth
\* is the number of separators of the path beyond those of the root (the root
\* is a cleaned path): 1 for an entry directly in the root.
WalkDepths == {1, walkMaxDepth, walkMaxDepth + 1}

WalkNames == {"vsrocqtop", "vsrocqtop.exe", "other"}

WalkEntries == [depth : WalkDepths, dir : BOOLEAN, name : WalkNames, exec : BOOLEAN]

\* The first position of a sequence that satisfies a test, 0 when none does.
FirstIndex(entries, Hit(_)) ==
  LET hits == {i \in 1..Len(entries) : Hit(entries[i])} IN
  IF hits = {} THEN 0 ELSE CHOOSE i \in hits : \A j \in hits : i <= j

\* walkForBinary: the first entry within maxDepth that is not a directory, has
\* the name and has an executable bit; entries beyond maxDepth are skipped.
walkForBinary(entries, binName, maxDepth) ==
  LET Hit(e) == e.depth <= maxDepth /\ ~e.dir /\ e.name = binName /\ e.exec
  IN FirstIndex(entries, Hit)

\* The walk of the Windows FindLanguageServerTop: the first entry that is not
\* a directory and is named binBase or binBase.exe.
WinWalk(entries, binBase) ==
  LET Hit(e) == ~e.dir /\ e.name \in {binBase, binBase \o ".exe"}
  IN FirstIndex(entries, Hit)

Walk_MacOS ==
  /\ platform = "macos"
  /\ pc = "walk"
  /\ pc' = "done"
  /\ locals' = [locals EXCEPT !.found =
                  walkForBinary(locals.entries, locals.binName, walkMaxDepth)]
  /\ UNCHANGED <<platform, manifest, machine, cfg, reports, ops, result, err, prev,
                 runs, gui>>

Walk_Windows ==
  /\ platform = "windows"
  /\ pc = "walk"
  /\ pc' = "done"
  /\ locals' = [locals EXCEPT !.found = WinWalk(locals.entries, locals.binName)]
  /\ UNCHANGED <<platform, manifest, machine, cfg, reports, ops, result, err, prev,
                 runs, gui>>

\* On Windows the file mode carries no executable bit.
InitWalk ==
  /\ platform \in {"macos", "windows"}
  /\ manifest = [SHA256 |-> <<>>]
  /\ machine = [tmp |-> "none"]
  /\ pc = "walk"
  /\ cfg = NoCfg
  /\ \E entries \in SeqsUpTo(WalkEntries, MaxEntries) :
       /\ platform = "windows" => \A i \in 1..Len(entries) : ~entries[i].exec
       /\ locals = [entries |-> entries, binName |-> "vsrocqtop", found |-> 0]
  /\ reports = <<>>
  /\ ops = <<>>
  /\ result = NilResult
  /\ err = ""
  /\ prev = NoPrev
  /\ runs = 0
  /\ gui = NoGui

NextWalk ==
  \/ Walk_MacOS
  \/ Walk_Windows

SpecWalk == InitWalk /\ [][NextWalk]_vars

-----------------------------------------------------------------------------
(* C26 *)

Walked == pc = "done" /\ "entries" \in DOMAIN locals

\* What the walk returned.
Returned == locals.entries[locals.found]

\* C26: the recursive walk returns nothing that lies more than 6 levels below
\* its root, and returns only a non-directory entry that has the searched
\* name and an executable bit.
C26_WalkBoundedAndExecutable ==
  (Walked /\ locals.found # 0) =>
    /\ Returned.depth <= 6
    /\ ~Returned.dir
    /\ Returned.name = locals.binName
    /\ Returned.exec

\* macOS: the walk passed over an executable vsrocqtop 7 levels down and
\* returned the one at level 6.
C26_Witness ==
  /\ Walked
  /\ platform = "macos"
  /\ Len(locals.entries) = 2
  /\ locals.entries[1] = [depth |-> 7, dir |-> FALSE, name |-> "vsrocqtop", exec |-> TRUE]
  /\ locals.found = 2
  /\ Returned.depth = 6

-----------------------------------------------------------------------------
(* Reusing an existing installation chosen in the GUI *)

\* Switches opam may list: the one the manifest names, one of an older
\* release, and one that is not a Platform switch.
SwitchOfManifest == SwitchName(JoinDots(<<9, 0, 0>>), <<"2", "5", ".", "0", "8">>)

SwitchOlder == SwitchName(JoinDots(<<8, 20, 1>>), <<"2", "5", ".", "0", "2">>)

SwitchOther == <<"d", "e", "f", "a", "u", "l", "t">>

\* strings.HasPrefix(name, "CP.") || strings.HasPrefix(name, "coq-")
IsPlatformSwitch(name) ==
  \/ Len(name) >= 3 /\ SubSeq(name, 1, 3) = <<"C", "P", ".">>
  \/ Len(name) >= 4 /\ SubSeq(name, 1, 4) = <<"c", "o", "q", "-">>

\* The Linux FindExistingInstallations: the listed switches that are Platform
\* switches, in the order of the listing.
RECURSIVE LinFindExistingInstallations(_)
LinFindExistingInstallations(listing) ==
  IF listing = <<>> THEN <<>>
  ELSE (IF IsPlatformSwitch(Head(listing)) THEN <<Head(listing)>> ELSE <<>>)
       \o LinFindExistingInstallations(Tail(listing))

\* The label of the radio entry for a new installation.
NewSwitchLabel == <<"I", "n", "s", "t", "a", "l", "l", " ", "n", "e", "w">>

ReuseStep(next, c, ls) ==
  /\ pc' = next
  /\ cfg' = c
  /\ locals' = ls
  /\ UNCHANGED <<platform, manifest, machine, reports, ops, result, err, prev, runs, gui>>

\* Linux: the Install handler up to the dialog or the start of the run.
Reuse_LinTapInstall ==
  /\ platform = "linux"
  /\ pc = "tap"
  /\ LET existingSwitches == LinFindExistingInstallations(machine.listing) IN
     IF Len(existingSwitches) > 0
       THEN ReuseStep("dialog", cfg, [locals EXCEPT !.options = existingSwitches])
       ELSE ReuseStep("run", [cfg EXCEPT !.SkipInstall = FALSE], locals)

\* Linux: Close, or Continue with the selected radio entry: only whether the
\* selection is the new-installation entry is passed on.
Reuse_LinDialog ==
  /\ platform = "linux"
  /\ pc = "dialog"
  /\ \E button \in {"Close", "Continue"},
        selected \in {locals.options[i] : i \in 1..Len(locals.options)} \cup {NewSwitchLabel} :
       IF button = "Close"
         THEN /\ selected = NewSwitchLabel
              /\ ReuseStep("done", cfg, locals)
         ELSE ReuseStep("run", [cfg EXCEPT !.SkipInstall = selected # NewSwitchLabel],
                        [locals EXCEPT !.chosen = IF selected = NewSwitchLabel
                                                  THEN <<>> ELSE selected])

\* Linux Run with SkipInstall: the switch is the one SwitchName computes from
\* the manifest; it goes into the Result, the activation scripts and the
\* lookup of vsrocqtop.
Reuse_LinRun ==
  /\ platform = "linux"
  /\ pc = "run"
  /\ \E workspaceOk \in BOOLEAN, codeFound \in BOOLEAN :
       LET switchName == SwitchName(manifest.RocqVersion, manifest.PlatformRelease) IN
       /\ (~workspaceOk => ~codeFound)
       /\ pc' = "done"
       /\ IF ~workspaceOk
            THEN /\ result' = NilResult
                 /\ err' = "workspace"
                 /\ locals' = locals
            ELSE /\ result' = [EmptyResult EXCEPT !.SwitchName = switchName,
                                                  !.VSCodeFound = codeFound]
                 /\ err' = ""
                 /\ locals' = [locals EXCEPT !.activated = switchName,
                                             !.lookedIn = IF codeFound THEN switchName
                                                          ELSE <<>>]
       /\ UNCHANGED <<platform, manifest, machine, cfg, reports, ops, prev, runs, gui>>

\* macOS: the Install handler and the Reuse / Reinstall dialog.
Reuse_MacTapInstall ==
  /\ platform = "macos"
  /\ pc = "tap"
  /\ LET existingDir == IF machine.listing = <<>> THEN <<>> ELSE machine.listing[1] IN
     IF existingDir = <<>>
       THEN ReuseStep("run", [cfg EXCEPT !.SkipInstall = FALSE, !.ExistingApp = ""], locals)
       ELSE \E reuse \in BOOLEAN :
              IF reuse
                THEN ReuseStep("run", [cfg EXCEPT !.SkipInstall = TRUE,
                                                  !.ExistingApp = existingDir],
                               [locals EXCEPT !.chosen = existingDir])
                ELSE ReuseStep("run", [cfg EXCEPT !.SkipInstall = FALSE,
                                                  !.ExistingApp = ""], locals)

\* macOS Run: installedAppPath is cfg.ExistingApp in the reuse branch and the
\* path InstallApp returns otherwise.
Reuse_MacRun ==
  /\ platform = "macos"
  /\ pc = "run"
  /\ \E installOk \in BOOLEAN :
       LET reuse == cfg.SkipInstall /\ cfg.ExistingApp # ""
           installedAppPath == IF reuse THEN cfg.ExistingApp ELSE AppA
       IN
       /\ (reuse => installOk)
       /\ pc' = "done"
       /\ IF ~installOk
            THEN /\ result' = NilResult
                 /\ err' = "install app"
                 /\ locals' = locals
            ELSE /\ result' = [EmptyResult EXCEPT !.InstalledApp = installedAppPath]
                 /\ err' = ""
                 /\ locals' = [locals EXCEPT !.lookedIn = installedAppPath]
       /\ UNCHANGED <<platform, manifest, machine, cfg, reports, ops, prev, runs, gui>>

\* Listings without repetition.
ReuseListings(S) ==
  {l \in SeqsUpTo(S, MaxDetected) : \A i \in 1..Len(l) : \A j \in 1..Len(l) :
     l[i] = l[j] => i = j}

InitReuse ==
  /\ platform \in {"linux", "macos"}
  /\ \E v \in {<<9, 0, 0>>, <<8, 20, 1>>},
        rel \in {<<"2", "5", ".", "0", "8">>, <<"2", "5", ".", "0", "2">>} :
       manifest = [SHA256 |-> <<>>, RocqVersion |-> JoinDots(v), PlatformRelease |-> rel]
  /\ \/ /\ platform = "linux"
        /\ \E l \in ReuseListings({SwitchOfManifest, SwitchOlder, SwitchOther}) :
             machine = [listing |-> l]
     \/ /\ platform = "macos"
        /\ \E l \in ReuseListings({AppA, AppH}) : machine = [listing |-> l]
  /\ pc = "tap"
  /\ cfg = NoCfg
  /\ locals = [options |-> <<>>, chosen |-> <<>>, activated |-> <<>>, lookedIn |-> <<>>]
  /\ reports = <<>>
  /\ ops = <<>>
  /\ result = NilResult
  /\ err = ""
  /\ prev = NoPrev
  /\ runs = 0
  /\ gui = NoGui

NextReuse ==
  \/ Reuse_LinTapInstall
  \/ Reuse_LinDialog
  \/ Reuse_LinRun
  \/ Reuse_MacTapInstall
  \/ Reuse_MacRun

SpecReuse == InitReuse /\ [][NextReuse]_vars

-----------------------------------------------------------------------------
(* C27 *)

\* A run that reused an installation chosen by the user has returned a Result.
ReusedChosen ==
  /\ pc = "done"
  /\ "chosen" \in DOMAIN locals
  /\ cfg.SkipInstall
  /\ ~result.isNil

\* C27: when a run reuses the installation the user chose, that installation
\* is what the Result records and what the workspace is wired to: on Linux
\* Result.SwitchName, the switch of the activation scripts and the switch in
\* which vsrocqtop is looked up are the chosen switch; on macOS
\* Result.InstalledApp and the root of the lookup are the chosen bundle.
C27_ReuseUsesChosen ==
  ReusedChosen =>
    /\ platform = "linux" =>
         /\ result.SwitchName = locals.chosen
         /\ locals.activated = locals.chosen
         /\ locals.lookedIn \in {<<>>, locals.chosen}
    /\ platform = "macos" =>
         /\ result.InstalledApp = locals.chosen
         /\ locals.lookedIn = locals.chosen

\* Linux: the user chose the switch the manifest names, and the run recorded
\* and activated it.
C27_Witness ==
  /\ ReusedChosen
  /\ platform = "linux"
  /\ locals.chosen = SwitchOfManifest
  /\ result.SwitchName = SwitchOfManifest
  /\ locals.activated = SwitchOfManifest
  /\ locals.lookedIn = SwitchOfManifest

-----------------------------------------------------------------------------
(* Linux GUI: the release selector, its fetches and the Install button *)

\* The release of the embedded manifest and another release of the list.
Releases == {"2025.08.1", "2025.02.0"}

EmbeddedRelease == "2025.08.1"

\* A manifest, by the release it describes and where it came from.
ManifestOf(tag, origin) == [PlatformRelease |-> tag, origin |-> origin]

NoRun == [inFlight |-> FALSE, m |-> ManifestOf("", ""), selectedAtTap |-> ""]

RelStep(ls) ==
  /\ locals' = ls
  /\ UNCHANGED <<platform, manifest, machine, pc, cfg, reports, ops, result, err, prev,
                 runs, gui>>

\* The background goroutine of lines 119-135, first half: the list of tags,
\* then the request for the release currentManifest names at that moment.
Rel_BackgroundTags ==
  /\ pc = "selector"
  /\ locals.background = "start"
  /\ \E tagsOk \in BOOLEAN :
       IF ~tagsOk
         THEN RelStep([locals EXCEPT !.background = "returned"])
         ELSE RelStep([locals EXCEPT !.background = "fetching",
                                     !.backgroundTag = locals.currentManifest.PlatformRelease,
                                     !.options = Releases])

\* Second half: FetchManifestForTag returns and currentManifest is assigned.
Rel_BackgroundDone ==
  /\ pc = "selector"
  /\ locals.background = "fetching"
  /\ \E fetchOk \in BOOLEAN :
       IF ~fetchOk
         THEN RelStep([locals EXCEPT !.background = "returned"])
         ELSE RelStep([locals EXCEPT !.background = "returned",
                         !.currentManifest = ManifestOf(locals.backgroundTag, "fetched")])

\* The user picks an entry of the selector: OnChanged (lines 137-152) up to go.
Rel_Select ==
  /\ pc = "selector"
  /\ locals.selectEnabled
  /\ locals.dialog = FALSE
  /\ \E selected \in locals.options :
       /\ selected # locals.selected
       /\ IF selected = locals.currentManifest.PlatformRelease
            THEN RelStep([locals EXCEPT !.selected = selected])
            ELSE RelStep([locals EXCEPT !.selected = selected, !.selectEnabled = FALSE,
                                        !.fetching = @ \cup {selected}])

\* The goroutine of OnChanged: FetchManifestForTag(selected) returns.
Rel_SelectDone ==
  /\ pc = "selector"
  /\ \E tag \in locals.fetching, fetchOk \in BOOLEAN :
       IF ~fetchOk
         THEN RelStep([locals EXCEPT !.fetching = @ \ {tag}, !.selectEnabled = TRUE])
         ELSE RelStep([locals EXCEPT !.fetching = @ \ {tag}, !.selectEnabled = TRUE,
                                     !.currentManifest = ManifestOf(tag, "fetched")])

\* The Install handler (lines 192-244): both widgets are disabled; without an
\* existing switch the run starts with currentManifest.
Rel_TapInstall ==
  /\ pc = "selector"
  /\ locals.installEnabled
  /\ locals.dialog = FALSE
  /\ ~locals.run.inFlight
  /\ \E existing \in BOOLEAN :
       LET ls == [locals EXCEPT !.installEnabled = FALSE, !.selectEnabled = FALSE,
                                !.selectedAtTap = locals.selected]
       IN
       IF existing
         THEN RelStep([ls EXCEPT !.dialog = TRUE])
         ELSE RelStep([ls EXCEPT !.run = [inFlight |-> TRUE, m |-> locals.currentManifest,
                                          selectedAtTap |-> locals.selected]])

\* The dialog's buttons: Close enables both widgets, Continue starts the run
\* with currentManifest as it is then.
Rel_Dialog ==
  /\ pc = "selector"
  /\ locals.dialog
  /\ \E button \in {"Close", "Continue"} :
       IF button = "Close"
         THEN RelStep([locals EXCEPT !.dialog = FALSE, !.installEnabled = TRUE,
                                     !.selectEnabled = TRUE])
         ELSE RelStep([locals EXCEPT !.dialog = FALSE,
                         !.run = [inFlight |-> TRUE, m |-> locals.currentManifest,
                                  selectedAtTap |-> locals.selectedAtTap]])

InitRelease ==
  /\ platform = "linux"
  /\ manifest = [SHA256 |-> <<>>]
  /\ machine = [tmp |-> "none"]
  /\ pc = "selector"
  /\ cfg = NoCfg
  /\ locals = [currentManifest |-> ManifestOf(EmbeddedRelease, "embedded"),
               selected |-> EmbeddedRelease, options |-> {EmbeddedRelease},
               selectEnabled |-> TRUE, installEnabled |-> TRUE, dialog |-> FALSE,
               background |-> "start", backgroundTag |-> "", fetching |-> {},
               selectedAtTap |-> "", run |-> NoRun]
  /\ reports = <<>>
  /\ ops = <<>>
  /\ result = NilResult
  /\ err = ""
  /\ prev = NoPrev
  /\ runs = 0
  /\ gui = NoGui

NextRelease ==
  \/ Rel_BackgroundTags
  \/ Rel_BackgroundDone
  \/ Rel_Select
  \/ Rel_SelectDone
  \/ Rel_TapInstall
  \/ Rel_Dialog

SpecRelease == InitRelease /\ [][NextRelease]_vars

-----------------------------------------------------------------------------
(* C28 *)

RunStarted == pc = "selector" /\ locals.run.inFlight

\* C28: the manifest handed to a run is the manifest of the release the
\* selector showed as selected when Install was activated.
C28_RunUsesSelectedRelease ==
  RunStarted => locals.run.m.PlatformRelease = locals.run.selectedAtTap

\* The manifest of a run in flight does not change, whatever the fetches do.
C28_ManifestStableInFlight ==
  [][(pc = "selector" /\ locals.run.inFlight) => locals'.run = locals.run]_vars

\* A run started with the fetched manifest of the release the user selected,
\* and a fetch completed while it was in flight.
C28_Witness ==
  /\ RunStarted
  /\ locals.run.selectedAtTap = "2025.02.0"
  /\ locals.run.m = ManifestOf("2025.02.0", "fetched")
  /\ locals.currentManifest # locals.run.m

-----------------------------------------------------------------------------
(* C29 *)

\* A run of a GUI installer has returned a Result and no error.
ReturnedSuccess == platform \in GoPlatforms /\ pc = "done" /\ err = "" /\ ~result.isNil

\* The last report for step s carries the fraction 1.0.
EndsAtOne(s) ==
  \E i \in 1..Len(reports) :
    /\ reports[i].step = s
    /\ IsOne(reports[i].fraction)
    /\ \A j \in (i + 1)..Len(reports) : reports[j].step # s

\* C29: in a run that returns successfully, every step 1..7 is reported and
\* the last report of each carries 1.0, whether or not the server announced
\* the size of the download.
C29_EveryStepEndsAtOne == ReturnedSuccess => \A s \in 1..7 : EndsAtOne(s)

\* A successful run that downloaded a body of announced size: step 1 ends at
\* 1.0 through the final progress call, and so does every other step.
C29_Witness ==
  /\ ReturnedSuccess
  /\ platform \in {"macos", "windows"}
  /\ Op("download", TRUE) \in OpSet(ops)
  /\ \A s \in 1..7 : EndsAtOne(s)

-----------------------------------------------------------------------------
(* Content of the destination bundle after step 3 of the macOS Run *)

\* Step 3 of a macOS run that does not skip installation has ended:
\* InstallApp returned without error.
StepThreeEnded ==
  /\ platform = "macos"
  /\ ~cfg.SkipInstall
  /\ Op("InstallApp", TRUE) \in OpSet(ops)

\* C30 as stated: a macOS run that does not skip installation ends step 3
\* with the destination bundle holding the content of the freshly
\* downloaded image, also when a bundle of the same name existed before.
C30_DestinationHoldsFreshImage == StepThreeEnded => machine.dest = "new"

\* The part of C30 that holds: with no bundle at the destination before the
\* run, step 3 ends with the content of the downloaded image there.
C30_FreshWhenNoneBefore ==
  (StepThreeEnded /\ locals.destBefore = "none") => machine.dest = "new"

C30_Witness ==
  /\ StepThreeEnded
  /\ pc = "step4"
  /\ locals.destBefore = "none"
  /\ machine.dest = "new"
  /\ Op("rsync", TRUE) \in OpSet(ops)
====
